---------------------------- MODULE Spec2Model ----------------------------
(***************************************************************************)
(* Model of flask_restplus.swagger (Swagger.as_dict and its helpers) and   *)
(* of flask_restplus.namespace (Namespace.add_resource).                   *)
(*                                                                         *)
(* Representation of Python values:                                        *)
(*   - a value that may be None is a sequence of length at most one:       *)
(*     None is <<>>, a present value v is <<v>>;                           *)
(*   - a dict is a function whose domain is its key set;                   *)
(*   - an OrderedDict (iteration order observable) is a sequence of        *)
(*     <<key, value>> pairs;                                               *)
(*   - a string that the code scans character by character (URL patterns)  *)
(*     is a sequence of tokens; other strings are TLA+ strings;            *)
(*   - a call that may raise returns Ok(value) or Err(exception name).     *)
(***************************************************************************)
EXTENDS Integers, Sequences, FiniteSets, TLC

VARIABLES
    api,         \* the Api object the Swagger wrapper reads
    apidocs,     \* the __apidoc__ mappings of the resource classes (mutable)
    registered,  \* Swagger._registered_models of the long-lived instance
    arg,         \* the argument of the last call of a module-level function
    out,         \* what the last call returned or raised
    first,       \* what the first as_dict call returned or raised
    calls,       \* number of as_dict calls made so far
    declared     \* the __apidoc__ mappings as the declarations left them

vars == <<api, apidocs, registered, arg, out, first, calls, declared>>

-----------------------------------------------------------------------------
(* Python values *)

None == <<>>
Some(v) == <<v>>

Ok(v) == [ok |-> TRUE, val |-> v]
Err(e) == [ok |-> FALSE, err |-> e]

\* Truthiness of an optional string: None and '' are falsy.
Truthy(o) == o # None /\ o # Some("")

RECURSIVE Join(_)
Join(toks) == IF toks = <<>> THEN "" ELSE Head(toks) \o Join(Tail(toks))

RECURSIVE Concat(_)
Concat(seqs) == IF seqs = <<>> THEN <<>> ELSE Head(seqs) \o Concat(Tail(seqs))

\* Strings: the characters str.strip() and '\s' take as white space:
\* the space, \t, \n, \r, \f (0x0c), the vertical tab 0x0b and the
\* separators 0x1c to 0x1f, the last five written as the characters
\* themselves
Whitespace ==
    {" ", "\n", "\t", "\r", "\f", "", "", "", "", ""}

\* s.lstrip(chars), s.rstrip(chars) and s.strip(chars), chars being a set
\* of characters
RECURSIVE LStrip(_, _)
LStrip(s, chars) ==
    IF s # "" /\ Head(s) \in chars THEN LStrip(Tail(s), chars) ELSE s

RECURSIVE RStrip(_, _)
RStrip(s, chars) ==
    IF s # "" /\ SubSeq(s, Len(s), Len(s)) \in chars
    THEN RStrip(SubSeq(s, 1, Len(s) - 1), chars) ELSE s

Strip(s, chars) == RStrip(LStrip(s, chars), chars)

\* s.replace(old, ''): every occurrence of old goes, left to right
RECURSIVE Remove(_, _)
Remove(s, old) ==
    IF old = "" \/ Len(s) < Len(old) THEN s
    ELSE IF SubSeq(s, 1, Len(old)) = old
    THEN Remove(SubSeq(s, Len(old) + 1, Len(s)), old)
    ELSE Head(s) \o Remove(Tail(s), old)

\* s.split(c)[0]: s up to the first character of stops
RECURSIVE UpTo(_, _)
UpTo(s, stops) ==
    IF s = "" \/ Head(s) \in stops THEN ""
    ELSE Head(s) \o UpTo(Tail(s), stops)

\* s.lower() on ASCII letters
UpperCase == "ABCDEFGHIJKLMNOPQRSTUVWXYZ"
LowerCase == "abcdefghijklmnopqrstuvwxyz"
LowerChar(c) ==
    IF \E i \in 1..26 : SubSeq(UpperCase, i, i) = c
    THEN SubSeq(LowerCase,
                CHOOSE i \in 1..26 : SubSeq(UpperCase, i, i) = c,
                CHOOSE i \in 1..26 : SubSeq(UpperCase, i, i) = c)
    ELSE c

\* OrderedDict as a sequence of <<key, value>> pairs.
ODHas(od, k) == \E i \in 1..Len(od) : od[i][1] = k
ODIndex(od, k) == CHOOSE i \in 1..Len(od) : od[i][1] = k
ODGet(od, k) == od[ODIndex(od, k)][2]
ODSet(od, k, v) ==
    IF ODHas(od, k) THEN [od EXCEPT ![ODIndex(od, k)] = <<k, v>>]
    ELSE Append(od, <<k, v>>)

\* dict with one more / one replaced key
DSet(d, k, v) == [x \in DOMAIN d \cup {k} |-> IF x = k THEN v ELSE d[x]]
DGet(d, k, default) == IF k \in DOMAIN d THEN d[k] ELSE default

\* d[k] = v under a condition: 'if c: d[k] = v'
DSetIf(d, c, k, v) == IF c THEN DSet(d, k, v) ELSE d

-----------------------------------------------------------------------------
(* Module constants of swagger.py *)

\* PATH_TYPES: converter name (None when the placeholder has none) -> type
PATH_TYPES ==
    [c \in {Some("int"), Some("float"), Some("string"), None} |->
        IF c = Some("int") THEN "integer"
        ELSE IF c = Some("float") THEN "number"
        ELSE "string"]

\* LOCATIONS: RequestParser location -> Swagger location
LOCATIONS ==
    [l \in {"args", "form", "headers", "json", "values", "files"} |->
        CASE l = "args" -> "query"
          [] l = "form" -> "formData"
          [] l = "headers" -> "header"
          [] l = "json" -> "body"
          [] l = "values" -> "query"
          [] l = "files" -> "formData"]

\* PY_TYPES: Python primitive type -> Swagger type.  Python types are
\* written "py:int", "py:str", "py:bool", "py:None".
PY_TYPES ==
    [t \in {"py:int", "py:str", "py:bool", "py:None"} |->
        CASE t = "py:int" -> "integer"
          [] t = "py:str" -> "string"
          [] t = "py:bool" -> "boolean"
          [] t = "py:None" -> "void"]

DEFAULT_RESPONSE_DESCRIPTION == "Success"
DEFAULT_RESPONSE == [description |-> DEFAULT_RESPONSE_DESCRIPTION]

\* ref(model): a reference to a model in definitions
ref(name) == ("$ref" :> ("#/definitions/" \o name))

-----------------------------------------------------------------------------
(* URL patterns: extract_path and extract_path_params                      *)
(* A URL pattern is a sequence of tokens; "<", ">" and ":" are the         *)
(* characters the two regular expressions distinguish, every other token   *)
(* stands for a run of other characters.                                   *)

\* Where the match of '<[^<>]+>' that starts at position i ends, 0 if the
\* pattern does not match at i.  RE_URL and RE_PARAMS match the same
\* substrings: the optional '(?:[^:<>]+:)?' only moves the group boundary.
MatchEnd(url, i) ==
    IF url[i] # "<" THEN 0
    ELSE LET stops == {j \in (i+1)..Len(url) : url[j] \in {"<", ">"}}
         IN IF stops = {} THEN 0
            ELSE LET j == CHOOSE s \in stops : \A t \in stops : s <= t
                 IN IF url[j] = ">" /\ j > i + 1 THEN j ELSE 0

\* Group 1 of RE_URL on the content X of a match: X without its
\* 'converter:' prefix when '(?:[^:<>]+:)?' can match and leave a non-empty
\* rest, X itself otherwise.
UrlGroup(x) ==
    LET colons == {k \in 1..Len(x) : x[k] = ":"}
    IN IF colons = {} THEN x
       ELSE LET k == CHOOSE c \in colons : \A d \in colons : c <= d
            IN IF k > 1 /\ k < Len(x) THEN SubSeq(x, k + 1, Len(x)) ELSE x

RECURSIVE SubUrl(_, _)
SubUrl(url, i) ==
    IF i > Len(url) THEN <<>>
    ELSE LET j == MatchEnd(url, i)
         IN IF j = 0 THEN <<url[i]>> \o SubUrl(url, i + 1)
            ELSE <<"{">> \o UrlGroup(SubSeq(url, i + 1, j - 1)) \o <<"}">>
                 \o SubUrl(url, j + 1)

\* extract_path(path): RE_URL.sub(r'{\1}', path)
extract_path(url) == Join(SubUrl(url, 1))

\* RE_PARAMS.findall(path): the contents of the matches, left to right
RECURSIVE FindParams(_, _)
FindParams(url, i) ==
    IF i > Len(url) THEN <<>>
    ELSE LET j == MatchEnd(url, i)
         IN IF j = 0 THEN FindParams(url, i + 1)
            ELSE <<SubSeq(url, i + 1, j - 1)>> \o FindParams(url, j + 1)

\* match.split(':')
RECURSIVE Split(_)
Split(x) ==
    LET colons == {k \in 1..Len(x) : x[k] = ":"}
    IN IF colons = {} THEN <<x>>
       ELSE LET k == CHOOSE c \in colons : \A d \in colons : c <= d
            IN <<SubSeq(x, 1, k - 1)>> \o Split(SubSeq(x, k + 1, Len(x)))

\* The type of one path parameter, or the error of lines 88-93.
PathParamTypeSkipCheck(descriptor, converters) ==
    IF descriptor \in DOMAIN PATH_TYPES THEN Ok(PATH_TYPES[descriptor])
    ELSE Ok("string")

PathParamType(descriptor, converters) ==
    IF descriptor \in DOMAIN PATH_TYPES THEN Ok(PATH_TYPES[descriptor])
    ELSE IF descriptor[1] \in converters THEN Ok("string")
    ELSE Err("ValueError")

\* The loop of extract_path_params over the matches, params being the
\* OrderedDict built so far.
RECURSIVE PathParamsLoop(_, _, _)
PathParamsLoop(matches, params, converters) ==
    IF matches = <<>> THEN Ok(params)
    ELSE LET match == Head(matches)
             hasColon == \E k \in 1..Len(match) : match[k] = ":"
             parts == Split(match)
         IN IF hasColon /\ Len(parts) # 2
            THEN Err("ValueError")   \* too many values to unpack
            ELSE LET descriptor == IF hasColon THEN Some(Join(parts[1])) ELSE None
                     name == IF hasColon THEN Join(parts[2]) ELSE Join(match)
                     type == PathParamType(descriptor, converters)
                 IN IF ~type.ok THEN type
                    ELSE PathParamsLoop(Tail(matches),
                            ODSet(params, name,
                                  [name |-> name, in |-> "path",
                                   required |-> TRUE, type |-> type.val]),
                            converters)

\* extract_path_params(path) under current_app.url_map.converters
extract_path_params(url, converters) ==
    PathParamsLoop(FindParams(url, 1), <<>>, converters)

-----------------------------------------------------------------------------
(* Models: serialize_schema, register_model, register_field                *)
(*                                                                         *)
(* api.models maps a model name to its specs, a record                     *)
(*   [parent |-> None or Some(name), fields |-> sequence of fields]        *)
(* (with parent_empty |-> TRUE: the parent is a Model without fields that  *)
(* is not in api.models);                                                  *)
(* a field is [k |-> "Raw"], [k |-> "Nested", nested |-> name],            *)
(* [k |-> "List", container |-> field] or                                  *)
(* [k |-> "Polymorph", mapping |-> sequence of names].                     *)
(* A model reference, as given to body=, model= or a response, is          *)
(*   [k |-> "name", n |-> name]     the name of a model (a string)         *)
(*   [k |-> "model", n |-> name]    a Model instance of that name (with    *)
(*                                  empty |-> TRUE: one without fields     *)
(*                                  that is not in api.models)             *)
(*   [k |-> "list", of |-> <<reference, ...>>]   a list or tuple           *)
(*   [k |-> "field", schema |-> s]  a fields.Raw class or instance         *)
(*   [k |-> "py", t |-> type]       a Python type, None being "py:None"    *)
(*   [k |-> "other", truthy |-> b]  anything else, b being bool() of it:   *)
(*                                  FALSE for 0, False, {}, TRUE for an    *)
(*                                  object.                                *)
(* Calls that change Swagger._registered_models return the new registry    *)
(* in reg, also when they raise.                                           *)

SOk(reg, v) == [ok |-> TRUE, reg |-> reg, val |-> v]
SErr(reg, e) == [ok |-> FALSE, reg |-> reg, err |-> e]

RECURSIVE register_model(_, _, _, _)
RECURSIVE register_field(_, _, _, _)
RECURSIVE RegisterFields(_, _, _, _)
RECURSIVE RegisterMapping(_, _, _, _)

\* 'return ref(model)' once the fields are registered (line 501)
RegisterRef(name, f) == IF ~f.ok THEN f ELSE SOk(f.reg, ref(name))

\* 'for field in itervalues(specs): ...' once the parent is registered
RegisterOwnFields(models, name, depth, p) ==
    IF ~p.ok THEN p
    ELSE RegisterRef(name, RegisterFields(models, models[name].fields,
                                          p.reg, depth - 1))

\* 'if specs.__parent__:' (line 497): the parent is a Model, a mapping of
\* its fields, hence falsy when it has none, in api.models or not: the
\* fields are those api.models holds for its name, and for a parent that
\* is not in api.models 'parent_empty' says whether it has none.
ParentTruthy(models, name) ==
    /\ models[name].parent # None
    /\ IF models[name].parent[1] \in DOMAIN models
       THEN models[models[name].parent[1]].fields # <<>>
       ELSE ~("parent_empty" \in DOMAIN models[name]
              /\ models[name].parent_empty)

\* Lines 494-498: the model enters the registry, then its parent
RegisterParent(models, name, reg, depth) ==
    IF ParentTruthy(models, name)
    THEN register_model(models, models[name].parent[1], reg \cup {name},
                        depth - 1)
    ELSE SOk(reg \cup {name}, None)

\* register_model(model): depth is what is left of the interpreter's
\* recursion limit; running out of it raises RuntimeError.
register_model(models, name, reg, depth) ==
    IF depth = 0 THEN SErr(reg, "RuntimeError")
    ELSE IF name \notin DOMAIN models THEN SErr(reg, "ValueError")
    ELSE RegisterOwnFields(models, name, depth,
                           RegisterParent(models, name, reg, depth))

\* for field in itervalues(specs): self.register_field(field); r is what
\* registering the first field returned
FieldsStep(models, fields, depth, r) ==
    IF ~r.ok THEN r ELSE RegisterFields(models, Tail(fields), r.reg, depth)

RegisterFields(models, fields, reg, depth) ==
    IF fields = <<>> THEN SOk(reg, None)
    ELSE FieldsStep(models, fields, depth,
                    register_field(models, Head(fields), reg, depth))

\* for model in itervalues(field.mapping): self.register_model(model)
MappingStep(models, names, depth, r) ==
    IF ~r.ok THEN r ELSE RegisterMapping(models, Tail(names), r.reg, depth)

RegisterMapping(models, names, reg, depth) ==
    IF names = <<>> THEN SOk(reg, None)
    ELSE MappingStep(models, names, depth,
                     register_model(models, Head(names), reg, depth))

register_field(models, field, reg, depth) ==
    IF depth = 0 THEN SErr(reg, "RuntimeError")
    ELSE IF field.k = "Polymorph"
         THEN RegisterMapping(models, field.mapping, reg, depth - 1)
    ELSE IF field.k = "Nested"
         THEN register_model(models, field.nested, reg, depth - 1)
    ELSE IF field.k = "List"
         THEN register_field(models, field.container, reg, depth - 1)
    ELSE SOk(reg, None)

\* {'type': 'array', 'items': self.serialize_schema(model)}
ArraySchema(r) ==
    IF ~r.ok THEN r ELSE SOk(r.reg, [type |-> "array", items |-> r.val])

RECURSIVE serialize_schema(_, _, _, _)
serialize_schema(models, model, reg, depth) ==
    IF model.k = "list"
    THEN IF model.of = <<>> THEN SErr(reg, "IndexError")
         ELSE ArraySchema(serialize_schema(models, model.of[1], reg, depth))
    ELSE IF model.k \in {"model", "name"}
    THEN register_model(models, model.n, reg, depth)
    ELSE IF model.k = "field" THEN SOk(reg, model.schema)
    ELSE IF model.k = "py" /\ model.t \in DOMAIN PY_TYPES
    THEN SOk(reg, [type |-> PY_TYPES[model.t]])
    ELSE SErr(reg, "ValueError")

\* The models a field refers to
RECURSIVE FieldRefs(_)
FieldRefs(field) ==
    IF field.k = "Nested" THEN {field.nested}
    ELSE IF field.k = "Polymorph"
    THEN {field.mapping[i] : i \in 1..Len(field.mapping)}
    ELSE IF field.k = "List" THEN FieldRefs(field.container)
    ELSE {}

\* The models a model refers to: its parent and the targets of its fields
ModelRefs(specs) ==
    (IF specs.parent # None THEN {specs.parent[1]} ELSE {})
    \cup UNION {FieldRefs(specs.fields[i]) : i \in 1..Len(specs.fields)}

\* 'if self.__parent__:' decides on the allOf of __schema__ as line 497
\* decides on the registration of the parent
ModelSchema(models, name) ==
    [type |-> "object",
     refs |-> {ref(n)["$ref"] :
                 n \in (IF ParentTruthy(models, name)
                        THEN {models[name].parent[1]} ELSE {})
                       \cup UNION {FieldRefs(models[name].fields[i]) :
                                      i \in 1..Len(models[name].fields)}}]

\* serialize_definitions(): name -> model.__schema__
serialize_definitions(models, reg) ==
    [name \in reg |-> ModelSchema(models, name)]

-----------------------------------------------------------------------------
(* utils.merge and utils.not_none, which swagger.py imports                *)

\* not_none(data): the items of data whose value is not None
not_none(data) ==
    [k \in {x \in DOMAIN data : data[x] # None} |-> data[k][1]]

\* The keys whose values are dicts inside a parameter or a schema.
DictKeys == {"schema", "items"}

\* merge(first, second) on two parameter dicts or two schema dicts: the
\* values of second take precedence, nested dicts are merged too.
RECURSIVE MergeDict(_, _)
MergeDict(a, b) ==
    [k \in DOMAIN a \cup DOMAIN b |->
        IF k \notin DOMAIN b THEN a[k]
        ELSE IF k \in DOMAIN a /\ k \in DictKeys THEN MergeDict(a[k], b[k])
        ELSE b[k]]

\* merge(first, second) on two name -> parameter mappings, first being an
\* OrderedDict: a key of second that first has keeps its place, a new key
\* is added at the end.
RECURSIVE MergeOD(_, _)
MergeOD(a, b) ==
    IF b = <<>> THEN a
    ELSE LET k == Head(b)[1]
             v == Head(b)[2]
         IN MergeOD(IF ODHas(a, k) THEN ODSet(a, k, MergeDict(ODGet(a, k), v))
                    ELSE Append(a, <<k, v>>),
                    Tail(b))

\* merge(first, second) on two code -> response mappings (kept in their
\* iteration order): a response is a string or a tuple, never a dict, so
\* the one of second replaces the one of first.
RECURSIVE MergeFlat(_, _)
MergeFlat(a, b) ==
    IF b = <<>> THEN a
    ELSE MergeFlat(ODSet(a, Head(b)[1], Head(b)[2]), Tail(b))

\* False, as the value of __apidoc__ or of the documentation of a method
DocFalse == [hidden |-> TRUE]

\* merge(first, second) on two documentation dicts.  second = False is
\* returned as it is; first = False is copied and then asked 'key in
\* result' for every key of second, which raises TypeError on a bool.
MergeDoc(a, b) ==
    IF b = DocFalse THEN Ok(DocFalse)
    ELSE IF a = DocFalse
         THEN IF DOMAIN b = {} THEN Ok(DocFalse) ELSE Err("TypeError")
    ELSE Ok([k \in DOMAIN a \cup DOMAIN b |->
                IF k \notin DOMAIN b THEN a[k]
                ELSE IF k \notin DOMAIN a THEN b[k]
                ELSE IF k = "params" THEN MergeOD(a[k], b[k])
                ELSE IF k = "responses" THEN MergeFlat(a[k], b[k])
                ELSE b[k]])

-----------------------------------------------------------------------------
(* Request parsers: parser_to_params and _handle_arg_type                  *)
(* An argument is [name, location, type, required, help, default, action,  *)
(* choices]; its type is [k |-> "py", t |-> Python type],                  *)
(* [k |-> "apidoc", name |-> n] (a type carrying __apidoc__),              *)
(* [k |-> "schema", schema |-> s] (a type carrying __schema__) or          *)
(* [k |-> "other"].                                                        *)

_handle_arg_type(a, param) ==
    IF a.type.k = "py" /\ a.type.t \in DOMAIN PY_TYPES
    THEN DSet(param, "type", PY_TYPES[a.type.t])
    ELSE IF a.type.k = "apidoc"
    THEN DSet(DSet(param, "type", a.type.name), "in", "body")
    ELSE IF a.type.k = "schema"
    THEN MergeDict(param, a.type.schema) \* dict.update: no nested dict here
    ELSE IF a.location = "files" THEN DSet(param, "type", "file")
    ELSE DSet(param, "type", "string")

\* 'if arg.action == 'append': ...' and 'if arg.choices: ...' (lines
\* 113-119) on the parameter param built so far.
ArgItems(a, param) ==
    IF a.action = "append" /\ "type" \notin DOMAIN param THEN Err("KeyError")
    ELSE Ok(DSetIf(DSetIf(
                IF a.action = "append"
                THEN DSet(DSet(DSet(param, "items", [type |-> param.type]),
                               "type", "array"),
                          "collectionFormat", "multi")
                ELSE param,
                a.choices # <<>>, "enum", a.choices),
              a.choices # <<>>, "collectionFormat", "multi"))

\* The parameter built for one argument (lines 105-119).
ArgParam(a) ==
    ArgItems(a,
        DSetIf(DSetIf(DSetIf(
            _handle_arg_type(a, [in |-> IF a.location \in DOMAIN LOCATIONS
                                        THEN LOCATIONS[a.location] ELSE "query"]),
            a.required, "required", TRUE),
            Truthy(a.help), "description", a.help[1]),
            Truthy(a.default), "default", a.default[1]))

\* The loop of parser_to_params over parser.args (lines 102-124); p is
\* the parameter of the first argument.
RECURSIVE ParserLoop(_, _, _)
ParserStep(args, params, locations, p) ==
    IF ~p.ok THEN p
    ELSE ParserLoop(Tail(args), ODSet(params, Head(args).name, p.val),
                    locations \cup {p.val.in})

ParserLoop(args, params, locations) ==
    IF args = <<>>
    THEN [ok |-> TRUE, val |-> params, locations |-> locations]
    ELSE IF Head(args).location = "cookie"
    THEN ParserLoop(Tail(args), params, locations)
    ELSE ParserStep(args, params, locations, ArgParam(Head(args)))

\* The check of lines 125-126 on what the loop returned
ParserChecked(r) ==
    IF ~r.ok THEN r
    ELSE IF "body" \in r.locations /\ "formData" \in r.locations
    THEN Err("SpecsError")
    ELSE Ok(r.val)

\* parser_to_params(parser): parser is the sequence parser.args
parser_to_params(parser) == ParserChecked(ParserLoop(parser, <<>>, {}))

\* _param_to_header(param): the types of the model are strings already or
\* Python types.
_param_to_header(param) ==
    DSet([k \in DOMAIN param \ {"in"} |-> param[k]], "type",
         IF DGet(param, "type", "string") \in DOMAIN PY_TYPES
         THEN PY_TYPES[DGet(param, "type", "string")]
         ELSE DGet(param, "type", "string"))

-----------------------------------------------------------------------------
(* Docstrings: parse_docstring                                             *)
(* A docstring is None or Some(text): what inspect.getdoc(obj) returns.    *)

RECURSIVE JoinWith(_, _)
JoinWith(strs, sep) ==
    IF strs = <<>> THEN ""
    ELSE IF Len(strs) = 1 THEN strs[1]
    ELSE strs[1] \o sep \o JoinWith(Tail(strs), sep)

\* '[\w\d_]': letters, digits and the underscore
WordChars ==
    {SubSeq(UpperCase, i, i) : i \in 1..26}
    \cup {SubSeq(LowerCase, i, i) : i \in 1..26}
    \cup {"0", "1", "2", "3", "4", "5", "6", "7", "8", "9", "_"}

\* Where a run of characters of chars that starts at position i ends: the
\* first position from i on that holds another character
RECURSIVE SkipChars(_, _, _)
SkipChars(s, i, chars) ==
    IF i <= Len(s) /\ SubSeq(s, i, i) \in chars
    THEN SkipChars(s, i + 1, chars) ELSE i

\* Where the line of position i ends: the position of its '\n', or
\* Len(s) + 1
RECURSIVE LineEnd(_, _)
LineEnd(s, i) ==
    IF i <= Len(s) /\ SubSeq(s, i, i) # "\n" THEN LineEnd(s, i + 1) ELSE i

\* RE_RAISES at the start p of a line of s:
\*   ^:raises\s+(?P<name>[\w\d_]+)\s*:\s*(?P<description>.*)$
\* b, c, d, e are where the name starts and ends, where the white space
\* after it ends and where the description starts; '\s' also takes
\* newlines, '.*' stops at the end of the line.
NoMatch == [ok |-> FALSE]

RaisesDescribed(s, p, b, c, e, f) ==
    [ok |-> TRUE, name |-> SubSeq(s, b, c - 1),
     description |-> SubSeq(s, e, f - 1),
     text |-> SubSeq(s, p, f - 1), end |-> f]

RaisesColon(s, p, b, c, d) ==
    IF d > Len(s) \/ SubSeq(s, d, d) # ":" THEN NoMatch
    ELSE RaisesDescribed(s, p, b, c, SkipChars(s, d + 1, Whitespace),
                         LineEnd(s, SkipChars(s, d + 1, Whitespace)))

RaisesNamed(s, p, b, c) ==
    IF c = b THEN NoMatch
    ELSE RaisesColon(s, p, b, c, SkipChars(s, c, Whitespace))

RaisesSpaced(s, p, b) ==
    IF b = p + 7 THEN NoMatch
    ELSE RaisesNamed(s, p, b, SkipChars(s, b, WordChars))

RaisesMatch(s, p) ==
    IF p + 6 > Len(s) \/ SubSeq(s, p, p + 6) # ":raises" THEN NoMatch
    ELSE RaisesSpaced(s, p, SkipChars(s, p + 7, Whitespace))

\* for match in RE_RAISES.finditer(raw): ...  (lines 163-166) from the
\* line that starts at p on; acc holds raises, a dict in the order of its
\* first insertions, and details ('' standing for None as well).
RECURSIVE RaisesScan(_, _, _)
RaisesStep(s, p, acc, m) ==
    IF ~m.ok THEN RaisesScan(s, LineEnd(s, p) + 1, acc)
    ELSE RaisesScan(s, m.end + 1,
                    [raises |-> ODSet(acc.raises, m.name, m.description),
                     details |-> Remove(acc.details, m.text)])

RaisesScan(s, p, acc) ==
    IF p > Len(s) THEN acc ELSE RaisesStep(s, p, acc, RaisesMatch(s, p))

\* parsed (lines 167-175)
DocParsed(summary, acc) ==
    [summary |-> IF summary = "" THEN None ELSE Some(summary),
     details |-> IF acc.details = "" THEN None ELSE Some(acc.details),
     raises |-> acc.raises]

\* Lines 162-166: details is stripped first, then the ':raises' matches
\* are taken out of it
DocDetails(raw, summary) ==
    DocParsed(summary,
        RaisesScan(raw, 1,
            [raises |-> <<>>,
             details |-> Strip(LStrip(Remove(raw, summary), {".", " ", "\n"}),
                               {" ", "\n"})]))

\* parse_docstring(obj), raw being getdoc(obj)
parse_docstring(raw) ==
    IF raw = None \/ raw = Some("")
    THEN [summary |-> None, details |-> None, raises |-> <<>>]
    ELSE DocDetails(raw[1], UpTo(Strip(raw[1], {" ", "\n"}), {"\n", "."}))

-----------------------------------------------------------------------------
(* Swagger: tags, host, security                                           *)
(*                                                                         *)
(* A declared tag is [k |-> "str", name |-> name], [k |-> "seq", items |-> *)
(* list or tuple of strings], [k |-> "dict", d |-> dict] or                *)
(* [k |-> "other"].                                                        *)
(* A tag object is a dict with 'name' and, when it has one, 'description'  *)
(* (which may hold None).                                                  *)

TagOf(tag) ==
    IF tag.k = "str" THEN Ok([name |-> tag.name])
    ELSE IF tag.k = "seq"
    THEN IF Len(tag.items) < 2 THEN Err("IndexError")
         ELSE Ok([name |-> tag.items[1], description |-> Some(tag.items[2])])
    ELSE IF tag.k = "dict" /\ "name" \in DOMAIN tag.d THEN Ok(tag.d)
    ELSE Err("ValueError")

\* for tag in api.tags: ...  by_name maps a name to the index in tags of
\* the tag object it holds; t is the tag object of the first declared tag.
RECURSIVE TagsLoop(_, _, _)
TagsStep(given, tags, by_name, t) ==
    IF ~t.ok THEN t
    ELSE TagsLoop(Tail(given), Append(tags, t.val),
                  DSet(by_name, t.val.name, Len(tags) + 1))

TagsLoop(given, tags, by_name) ==
    IF given = <<>> THEN [ok |-> TRUE, val |-> tags, by_name |-> by_name]
    ELSE TagsStep(given, tags, by_name, TagOf(Head(given)))

\* for ns in api.namespaces: ...
RECURSIVE NsTagsLoop(_, _, _)
NsTagsLoop(namespaces, tags, by_name) ==
    IF namespaces = <<>> THEN tags
    ELSE LET ns == Head(namespaces)
         IN NsTagsLoop(Tail(namespaces),
                IF ns.name \notin DOMAIN by_name
                THEN Append(tags, [name |-> ns.name,
                                   description |-> ns.description])
                ELSE IF Truthy(ns.description)
                THEN [tags EXCEPT ![by_name[ns.name]] =
                         DSet(@, "description", ns.description)]
                ELSE tags,
                by_name)

\* The second loop of extract_tags on what the first one returned
NsTags(a, r) ==
    IF ~r.ok THEN r ELSE Ok(NsTagsLoop(a.namespaces, r.val, r.by_name))

\* extract_tags(api)
extract_tags(a) == NsTags(a, TagsLoop(a.tags, <<>>, <<>>))

\* A tag given as a dict is the very object extract_tags puts in its list:
\* the description a namespace gives it stays in api.tags.  tags is what
\* extract_tags returned.
TagsAfter(a, tags) ==
    IF ~tags.ok THEN a.tags
    ELSE [i \in 1..Len(a.tags) |->
             IF a.tags[i].k = "dict"
             THEN [a.tags[i] EXCEPT !.d = tags.val[i]]
             ELSE a.tags[i]]

\* get_host()
get_host(a) ==
    LET hostname == IF Truthy(a.config.SERVER_NAME) THEN a.config.SERVER_NAME
                    ELSE None
    IN IF hostname # None /\ a.blueprint # None
          /\ Truthy(a.blueprint[1].subdomain)
       THEN Some(a.blueprint[1].subdomain[1] \o "." \o hostname[1])
       ELSE hostname

\* A security declaration is [k |-> "none"] (None), [k |-> "str", v |->
\* name], [k |-> "dict", scopes |-> name -> scopes], [k |-> "list", items
\* |-> sequence of declarations] or [k |-> "other", truthy |-> whether bool()
\* of the value is True] (a number, a bool, an object); scopes are
\* [list |-> TRUE, v |-> seq] or [list |-> FALSE, v |-> one scope].

\* bool(value) for a declaration that is no list or tuple
SecurityTruthy(value) ==
    CASE value.k = "str" -> value.v # ""
      [] value.k = "dict" -> DOMAIN value.scopes # {}
      [] value.k = "other" -> value.truthy
      [] OTHER -> FALSE

\* security_requirement(value): a requirement object or None
security_requirement(value) ==
    IF value.k = "str" THEN Some((value.v :> <<>>))
    ELSE IF value.k = "dict"
    THEN Some([n \in DOMAIN value.scopes |->
                 IF value.scopes[n].list THEN value.scopes[n].v
                 ELSE <<value.scopes[n].v>>])
    ELSE None

\* security_requirements(value): a list of requirements (an entry may be
\* None), or None
security_requirements(value) ==
    IF value.k = "list"
    THEN Some([i \in 1..Len(value.items) |->
                 security_requirement(value.items[i])])
    ELSE IF SecurityTruthy(value)
    THEN LET requirement == security_requirement(value)
         IN IF requirement # None /\ requirement # Some(<<>>)
            THEN Some(<<requirement>>) ELSE None
    ELSE Some(<<>>)

\* security_for(doc, method)
security_for(doc, method) ==
    IF "security" \in DOMAIN doc[method]
    THEN security_requirements(doc[method].security)
    ELSE IF "security" \in DOMAIN doc
    THEN security_requirements(doc.security)
    ELSE None

-----------------------------------------------------------------------------
(* Swagger: parameters                                                     *)

\* The end of merge_params: the 'payload' parameter of the body, schema
\* being what serialize_schema(model) returned.
MergePayload(params, description, schema) ==
    IF ~schema.ok THEN schema
    ELSE SOk(schema.reg,
             MergeOD(params, << <<"payload",
                 not_none([name |-> Some("payload"),
                           required |-> Some(TRUE),
                           in |-> Some("body"),
                           schema |-> Some(schema.val),
                           description |-> description])>> >>))

\* 'if 'body' in doc: ...' (lines 302-315).  A body is a model reference;
\* a list or tuple of two items is taken as (model, description).
BodyIsPair(doc) == doc.body.k = "list" /\ Len(doc.body.of) = 2

MergeBody(models, params, doc, reg, depth) ==
    IF "body" \notin DOMAIN doc THEN SOk(reg, params)
    ELSE MergePayload(params,
                      IF BodyIsPair(doc) THEN doc.body.of[2] ELSE None,
                      serialize_schema(models,
                          IF BodyIsPair(doc) THEN doc.body.of[1] ELSE doc.body,
                          reg, depth))

\* 'if 'parser' in doc: ...' and 'if 'params' in doc: ...' (lines 296-300),
\* parsed being what parser_to_params returned.
MergeParsed(models, params, doc, reg, depth, parsed) ==
    IF ~parsed.ok THEN SErr(reg, parsed.err)
    ELSE MergeBody(models,
                   MergeOD(MergeOD(params, parsed.val),
                           DGet(doc, "params", <<>>)),
                   doc, reg, depth)

\* merge_params(params, doc)
merge_params(models, params, doc, reg, depth) ==
    IF "params" \notin DOMAIN doc /\ "parser" \notin DOMAIN doc
       /\ "body" \notin DOMAIN doc
    THEN SOk(reg, params)
    ELSE MergeParsed(models, params, doc, reg, depth,
                     IF "parser" \in DOMAIN doc
                     THEN parser_to_params(doc.parser) ELSE Ok(<<>>))

\* A type given as a list or tuple, and its first item
ListTypes == {"[py:int]", "[py:str]", "[string]"}
ListItem(t) ==
    CASE t = "[py:int]" -> "py:int"
      [] t = "[py:str]" -> "py:str"
      [] t = "[string]" -> "string"

\* 'if 'type' in param and 'schema' not in param: ...' (lines 396-403)
ParamType(param) ==
    IF "type" \in DOMAIN param /\ "schema" \notin DOMAIN param
    THEN IF param.type \in ListTypes
         THEN DSet(DSet(param, "type", "array"), "items",
                   [type |-> IF ListItem(param.type) \in DOMAIN PY_TYPES
                             THEN PY_TYPES[ListItem(param.type)]
                             ELSE ListItem(param.type)])
         ELSE IF param.type \in DOMAIN PY_TYPES
         THEN DSet(param, "type", PY_TYPES[param.type])
         ELSE param
    ELSE param

\* The body of the loop of parameters_for (lines 389-403).
OperationParam(name, param) ==
    ParamType(DSetIf(DSetIf(DSet(param, "name", name),
                            "type" \notin DOMAIN param
                               /\ "schema" \notin DOMAIN param,
                            "type", "string"),
                     "in" \notin DOMAIN param, "in", "query"))

\* __mask__ is [bool |-> TRUE or FALSE] or [str |-> mask]
MaskTruthy(m) == IF "bool" \in DOMAIN m THEN m.bool ELSE m.str # ""

\* The fields mask of lines 408-419: doc.get('__mask__') or
\* doc[method].get('__mask__')
MaskOf(doc, method) ==
    IF MaskTruthy(DGet(doc, "__mask__", [bool |-> FALSE]))
    THEN doc["__mask__"]
    ELSE DGet(doc[method], "__mask__", [bool |-> FALSE])

MaskParam(a, mask) ==
    DSetIf([name |-> a.config.RESTPLUS_MASK_HEADER,
            in |-> "header", type |-> "string", format |-> "mask",
            description |-> "An optional fields mask"],
           "str" \in DOMAIN mask, "default", mask.str)

\* The parameters of lines 388-405, merged being merge(doc['params'],
\* doc[method]['params'])
OperationParams(merged) ==
    [i \in 1..Len(merged) |-> OperationParam(merged[i][1], merged[i][2])]

\* parameters_for(doc, method): the list of parameters
parameters_for(a, doc, method) ==
    IF MaskTruthy(MaskOf(doc, method)) /\ a.config.RESTPLUS_MASK_SWAGGER
    THEN Append(OperationParams(MergeOD(doc.params, doc[method].params)),
                MaskParam(a, MaskOf(doc, method)))
    ELSE OperationParams(MergeOD(doc.params, doc[method].params))

-----------------------------------------------------------------------------
(* Swagger: responses                                                      *)
(*                                                                         *)
(* A declared response is [description |-> None or Some(text),             *)
(* model |-> None or Some(model reference)], a (description, model) pair;  *)
(* a response given as a plain string is [description |-> Some(text),      *)
(* model |-> None, plain |-> TRUE].                                        *)
(* An error handler is [docstring |-> docstring,                           *)
(* apidoc |-> None or Some(dict with 'params' and/or 'responses')];        *)
(* api.error_handlers maps exception names to handlers, in order.          *)

\* 'if model:' -- None, '', 0, False and empty containers are falsy; a
\* Model is a mapping of its fields, hence falsy when it has none: the
\* fields are those api.models holds for its name, and for a Model that is
\* not in api.models 'empty' says whether it has none.
ModelTruthy(models, m) ==
    /\ m # None
    /\ ~(m[1].k = "list" /\ m[1].of = <<>>)
    /\ ~(m[1].k = "name" /\ m[1].n = "")
    /\ ~(m[1].k = "model"
         /\ IF m[1].n \in DOMAIN models THEN models[m[1].n].fields = <<>>
            ELSE "empty" \in DOMAIN m[1] /\ m[1].empty)
    /\ ~(m[1].k = "py" /\ m[1].t = "py:None")
    /\ ~(m[1].k = "other" /\ ~m[1].truthy)

\* Lines 431-435: the description of the response of a code
ResponseDescribed(responses, code, response) ==
    IF code \in DOMAIN responses
    THEN DSet(responses, code,
              DSet(responses[code], "description",
                   IF Truthy(response.description)
                   THEN response.description[1]
                   ELSE DEFAULT_RESPONSE_DESCRIPTION))
    ELSE DSet(responses, code,
              [description |-> IF Truthy(response.description)
                               THEN response.description[1]
                               ELSE DEFAULT_RESPONSE_DESCRIPTION])

\* for code, response in iteritems(d['responses']): ...  (lines 429-437)
RECURSIVE ResponsesLoop(_, _, _, _, _)
ResponseSchema(models, items, responses, depth, sch) ==
    IF ~sch.ok THEN sch
    ELSE ResponsesLoop(models, Tail(items),
                       DSet(responses, Head(items)[1],
                            DSet(responses[Head(items)[1]], "schema", sch.val)),
                       sch.reg, depth)

\* 'if model: responses[code]['schema'] = self.serialize_schema(model)'
ResponsesStep(models, items, responses, reg, depth) ==
    IF ~ModelTruthy(models, Head(items)[2].model)
    THEN ResponsesLoop(models, Tail(items), responses, reg, depth)
    ELSE ResponseSchema(models, items, responses, depth,
                        serialize_schema(models, Head(items)[2].model[1],
                                         reg, depth))

ResponsesLoop(models, items, responses, reg, depth) ==
    IF items = <<>> THEN SOk(reg, responses)
    ELSE ResponsesStep(models, items,
                       ResponseDescribed(responses, Head(items)[1],
                                         Head(items)[2]),
                       reg, depth)

\* The response code an error handler documents: the first key of its
\* 'responses', None if it has none.
HandlerCode(handler) ==
    IF handler.apidoc # None /\ "responses" \in DOMAIN handler.apidoc[1]
       /\ handler.apidoc[1].responses # <<>>
    THEN Some(handler.apidoc[1].responses[1][1])
    ELSE None

\* The body of the loop of lines 445-451 for one raised name
RaisedResponse(handlers, name, responses) ==
    IF ODHas(handlers, name) /\ Truthy(HandlerCode(ODGet(handlers, name)))
    THEN DSet(responses, HandlerCode(ODGet(handlers, name))[1],
              ("$ref" :> ("#/responses/" \o name)))
    ELSE responses

\* for name, description in d['docstring']['raises'].items(): ...
\* (lines 445-451), raises in the order the docstring names them
RECURSIVE RaisesLoop(_, _, _)
RaisesLoop(handlers, raises, responses) ==
    IF raises = <<>> THEN responses
    ELSE RaisesLoop(handlers, Tail(raises),
                    RaisedResponse(handlers, Head(raises)[1], responses))

\* 'if 'responses' in d: ...' (lines 429-437)
DocResponses(a, d, responses, reg, depth) ==
    IF "responses" \in DOMAIN d
    THEN ResponsesLoop(a.models, d.responses, responses, reg, depth)
    ELSE SOk(reg, responses)

\* 'responses[code]['schema'] = self.serialize_schema(d['model'])'
ModelResponse(code, responses, sch) ==
    IF ~sch.ok THEN sch
    ELSE SOk(sch.reg, DSet(responses, code,
                           DSet(DGet(responses, code, DEFAULT_RESPONSE),
                                "schema", sch.val)))

\* 'if 'model' in d: ...' (lines 438-442)
DocModel(a, d, depth, r) ==
    IF ~r.ok \/ "model" \notin DOMAIN d THEN r
    ELSE ModelResponse(DGet(d, "default_code", "200"), r.val,
                       serialize_schema(a.models, d.model, r.reg, depth))

\* 'if 'docstring' in d: ...' (lines 444-451)
DocRaises(a, d, r) ==
    IF ~r.ok \/ "docstring" \notin DOMAIN d THEN r
    ELSE SOk(r.reg, RaisesLoop(a.error_handlers,
                               d.docstring.raises, r.val))

\* One turn of 'for d in doc, doc[method]' (lines 428-451).
ResponsesOf(a, d, responses, reg, depth) ==
    DocRaises(a, d,
        DocModel(a, d, depth, DocResponses(a, d, responses, reg, depth)))

\* The second turn of 'for d in doc, doc[method]'
MethodResponses(a, doc, method, depth, r) ==
    IF ~r.ok THEN r
    ELSE ResponsesOf(a, doc[method], r.val, r.reg, depth)

\* Lines 453-454 left out
NoDefaultResponse(r) == r

\* 'if not responses: responses['200'] = DEFAULT_RESPONSE.copy()'
DefaultResponse(r) ==
    IF ~r.ok \/ DOMAIN r.val # {} THEN r
    ELSE SOk(r.reg, ("200" :> DEFAULT_RESPONSE))

\* responses_for(doc, method)
responses_for(a, doc, method, reg, depth) ==
    DefaultResponse(
        MethodResponses(a, doc, method, depth,
                        ResponsesOf(a, doc, <<>>, reg, depth)))

\* The headers of lines 328-331 and what _param_to_header leaves in the
\* handler's own parameter dicts.
HeaderParams(params) ==
    LET idx == {i \in 1..Len(params) : DGet(params[i][2], "in", "") = "header"}
    IN [n \in {params[i][1] : i \in idx} |->
           _param_to_header(ODGet(params, n))]

HandlerAfter(handler) ==
    IF handler.apidoc = None \/ "params" \notin DOMAIN handler.apidoc[1]
    THEN handler
    ELSE LET params == handler.apidoc[1].params
         IN [handler EXCEPT !.apidoc = Some(DSet(handler.apidoc[1], "params",
                [i \in 1..Len(params) |->
                    IF DGet(params[i][2], "in", "") = "header"
                    THEN <<params[i][1], _param_to_header(params[i][2])>>
                    ELSE params[i]]))]

\* getattr(handler, '__apidoc__', {})
HandlerDoc(handler) ==
    IF handler.apidoc = None THEN <<>> ELSE handler.apidoc[1]

\* What the loop leaves of the i-th handler
HandlersAfter(handlers, i) ==
    [handlers EXCEPT ![i] = <<handlers[i][1], HandlerAfter(handlers[i][2])>>]

\* Lines 332-334: the schema of the model of the first response.
\* '_, model = response' takes a response given as a plain string apart
\* into its characters: only a string of two characters unpacks, and its
\* second character is then the model.
ErrorSchema(models, apidoc, reg, depth) ==
    IF "responses" \notin DOMAIN apidoc THEN SOk(reg, None)
    ELSE IF "plain" \in DOMAIN apidoc.responses[1][2]
    THEN IF Len(apidoc.responses[1][2].description[1]) # 2
         THEN SErr(reg, "ValueError")
         ELSE serialize_schema(models,
                  [k |-> "name",
                   n |-> SubSeq(apidoc.responses[1][2].description[1], 2, 2)],
                  reg, depth)
    ELSE serialize_schema(models,
             IF apidoc.responses[1][2].model = None
             THEN [k |-> "py", t |-> "py:None"]
             ELSE apidoc.responses[1][2].model[1],
             reg, depth)

\* The response of lines 322-335
ErrorResponse(handler, apidoc, sch) ==
    not_none([description |-> parse_docstring(handler.docstring).summary,
              headers |-> IF "params" \in DOMAIN apidoc
                          THEN Some(HeaderParams(apidoc.params)) ELSE None,
              schema |-> IF "responses" \in DOMAIN apidoc
                         THEN Some(sch.val) ELSE None])

\* register_errors(): the loop over api._error_handlers.  Returns the
\* responses in val and the handlers, as the loop leaves them, in handlers.
RECURSIVE ErrorsLoop(_, _, _, _, _, _)
ErrorStep(models, handlers, i, responses, depth, sch) ==
    IF ~sch.ok
    THEN [ok |-> FALSE, reg |-> sch.reg, err |-> sch.err,
          handlers |-> HandlersAfter(handlers, i)]
    ELSE ErrorsLoop(models, HandlersAfter(handlers, i), i + 1,
                    DSet(responses, handlers[i][1],
                         ErrorResponse(handlers[i][2],
                                       HandlerDoc(handlers[i][2]), sch)),
                    sch.reg, depth)

ErrorsLoop(models, handlers, i, responses, reg, depth) ==
    IF i > Len(handlers)
    THEN [ok |-> TRUE, reg |-> reg, val |-> responses, handlers |-> handlers]
    ELSE IF "responses" \in DOMAIN HandlerDoc(handlers[i][2])
            /\ HandlerDoc(handlers[i][2]).responses = <<>>
    THEN [ok |-> FALSE, reg |-> reg, err |-> "IndexError",
          handlers |-> HandlersAfter(handlers, i)]
    ELSE ErrorStep(models, handlers, i, responses, depth,
                   ErrorSchema(models, HandlerDoc(handlers[i][2]), reg, depth))

register_errors(a, reg, depth) ==
    ErrorsLoop(a.models, a.error_handlers, 1, <<>>, reg, depth)

-----------------------------------------------------------------------------
(* Swagger: resources and operations                                       *)
(*                                                                         *)
(* A resource class is [name, methods, docid, impl]: methods is None or    *)
(* Some(sequence of HTTP verbs); docid is None when the class has no       *)
(* __apidoc__ attribute, else Some(key of its mapping in apidocs) (a       *)
(* subclass that is not decorated shares the mapping of its base class);   *)
(* impl maps a lower-case verb to the handler's [apidoc |-> None,          *)
(* Some(dict) or Some(DocFalse), docstring |-> docstring].                 *)

\* m.lower()
RECURSIVE Lower(_)
Lower(m) == IF m = "" THEN "" ELSE LowerChar(Head(m)) \o Lower(Tail(m))

\* [m.lower() for m in resource.methods or []]
MethodsOf(resource) ==
    IF resource.methods = None THEN <<>>
    ELSE [i \in 1..Len(resource.methods[1]) |-> Lower(resource.methods[1][i])]

\* getattr(resource, '__apidoc__', {})
DocOf(store, resource) ==
    IF resource.docid = None THEN <<>> ELSE store[resource.docid[1]]

\* What an assignment to doc leaves in the class: doc is the class's own
\* mapping, or a dict of the call's own when the class has none.
PutDoc(store, resource, doc) ==
    IF resource.docid = None THEN store
    ELSE [store EXCEPT ![resource.docid[1]] = doc]

XOk(store, reg, v) == [ok |-> TRUE, store |-> store, reg |-> reg, val |-> v]
XErr(store, reg, e) == [ok |-> FALSE, store |-> store, reg |-> reg, err |-> e]

\* getattr(method_impl, '__apidoc__', OrderedDict())
ImplDoc(impl) == IF impl.apidoc = None THEN <<>> ELSE impl.apidoc[1]

\* for method in [m.lower() for m in resource.methods or []]: ...
\* (lines 278-289), doc being the mapping as the loop has left it so far.
RECURSIVE MethodDocsLoop(_, _, _, _, _, _)
\* 'doc[method] = method_doc' (line 289), params being what merge_params
\* returned for the method_doc md
MethodDocParams(a, resource, methods, doc, depth, md, params) ==
    IF ~params.ok
    THEN [ok |-> FALSE, doc |-> doc, reg |-> params.reg, err |-> params.err]
    ELSE MethodDocsLoop(a, resource, Tail(methods),
                        DSet(doc, Head(methods), DSet(md, "params", params.val)),
                        params.reg, depth)

\* 'method_doc['params'] = self.merge_params(OrderedDict(), method_doc)'
MethodDocString(a, resource, methods, doc, reg, depth, md) ==
    MethodDocParams(a, resource, methods, doc, depth, md,
                    merge_params(a.models, <<>>, md, reg, depth))

\* 'if method_doc is not False: ...' (lines 286-288), merged being what
\* merge returned
MethodDocMerged(a, resource, methods, doc, reg, depth, merged) ==
    IF ~merged.ok
    THEN [ok |-> FALSE, doc |-> doc, reg |-> reg, err |-> merged.err]
    ELSE IF merged.val = DocFalse
    THEN MethodDocsLoop(a, resource, Tail(methods),
                        DSet(doc, Head(methods), DocFalse), reg, depth)
    ELSE MethodDocString(a, resource, methods, doc, reg, depth,
             DSet(merged.val, "docstring",
                  parse_docstring(resource.impl[Head(methods)].docstring)))

MethodDocsLoop(a, resource, methods, doc, reg, depth) ==
    IF methods = <<>> THEN [ok |-> TRUE, doc |-> doc, reg |-> reg]
    ELSE MethodDocMerged(a, resource, methods, doc, reg, depth,
             MergeDoc(DGet(doc, Head(methods), <<>>),
                      ImplDoc(resource.impl[Head(methods)])))

\* 'return doc' (line 290), loop being what the loop over the methods
\* returned
ResourceDone(store, resource, loop) ==
    IF ~loop.ok THEN XErr(PutDoc(store, resource, loop.doc), loop.reg, loop.err)
    ELSE XOk(PutDoc(store, resource, loop.doc), loop.reg, loop.doc)

\* 'doc['params'] = ...' (line 277), params being what merge_params
\* returned, and the loop of lines 278-289
ResourceParams(a, store, resource, depth, doc, params) ==
    IF ~params.ok
    THEN XErr(PutDoc(store, resource, doc), params.reg, params.err)
    ELSE ResourceDone(store, resource,
             MethodDocsLoop(a, resource, MethodsOf(resource),
                            DSet(doc, "params", params.val),
                            params.reg, depth))

\* 'self.merge_params(extract_path_params(url), doc)' (line 277), path
\* being what extract_path_params returned
ResourceNamed(a, store, reg, resource, depth, doc, path) ==
    IF ~path.ok THEN XErr(PutDoc(store, resource, doc), reg, path.err)
    ELSE ResourceParams(a, store, resource, depth, doc,
                        merge_params(a.models, path.val, doc, reg, depth))

\* extract_resource_doc(resource, url).  val is the doc, or DocFalse.
extract_resource_doc(a, store, reg, resource, url, depth) ==
    IF DocOf(store, resource) = DocFalse THEN XOk(store, reg, DocFalse)
    ELSE ResourceNamed(a, store, reg, resource, depth,
                       DSet(DocOf(store, resource), "name", resource.name),
                       extract_path_params(url, a.converters))

\* description_for(doc, method): the parts joined by newlines, stripped
description_for(doc, method) ==
    Strip(JoinWith(
              (IF "description" \in DOMAIN doc THEN <<doc.description>> ELSE <<>>)
              \o (IF "description" \in DOMAIN doc[method]
                  THEN <<doc[method].description>> ELSE <<>>)
              \o (IF Truthy(doc[method].docstring.details)
                  THEN <<doc[method].docstring.details[1]>> ELSE <<>>),
              "\n"),
          Whitespace)

\* api.default_id(name, method)
default_id(name, method) == method \o "_" \o name

\* operation_id_for(doc, method)
operation_id_for(doc, method) ==
    IF "id" \in DOMAIN doc[method] THEN doc[method].id
    ELSE default_id(doc.name, method)

\* any(p['type'] == 'file' for p in parameters), from the i-th parameter
\* on: a parameter without 'type' met before a file raises KeyError.
RECURSIVE AnyFile(_, _)
AnyFile(params, i) ==
    IF i > Len(params) THEN Ok(FALSE)
    ELSE IF "type" \notin DOMAIN params[i] THEN Err("KeyError")
    ELSE IF params[i].type = "file" THEN Ok(TRUE)
    ELSE AnyFile(params, i + 1)

\* 'x or None' on a string and on a list
OrNone(x, empty) == IF x = empty THEN None ELSE Some(x)

\* The dict of lines 351-361
Operation(a, doc, method, responses, parameters) ==
    DSetIf([responses |-> IF DOMAIN responses = {} THEN None
                          ELSE Some(responses),
            summary |-> doc[method].docstring.summary,
            description |-> OrNone(description_for(doc, method), ""),
            operationId |-> Some(operation_id_for(doc, method)),
            parameters |-> OrNone(parameters, <<>>),
            security |-> security_for(doc, method)],
           DGet(doc, "deprecated", FALSE)
              \/ DGet(doc[method], "deprecated", FALSE),
           "deprecated", Some(TRUE))

\* Lines 363-367, file being any(p['type'] == 'file' ...)
OperationConsumes(reg, form, operation, file) ==
    IF ~file.ok THEN SErr(reg, file.err)
    ELSE SOk(reg, not_none(
             IF ~form THEN operation
             ELSE IF file.val
             THEN DSet(operation, "consumes", Some(<<"multipart/form-data">>))
             ELSE DSet(operation, "consumes",
                       Some(<<"application/x-www-form-urlencoded",
                              "multipart/form-data">>))))

\* any(p['in'] == 'formData' for p in operation['parameters'])
AnyForm(parameters) ==
    \E i \in 1..Len(parameters) : parameters[i].in = "formData"

OperationOf(a, doc, method, responses, parameters) ==
    IF ~responses.ok THEN responses
    ELSE OperationConsumes(responses.reg, AnyForm(parameters),
             Operation(a, doc, method, responses.val, parameters),
             IF AnyForm(parameters) THEN AnyFile(parameters, 1)
             ELSE Ok(FALSE))

\* serialize_operation(doc, method)
serialize_operation(a, doc, method, reg, depth) ==
    OperationOf(a, doc, method, responses_for(a, doc, method, reg, depth),
                parameters_for(a, doc, method))

\* for method in ...: operations[method] = ...  (lines 343-347)
RECURSIVE OperationsLoop(_, _, _, _, _, _, _)
OperationStep(a, ns, doc, methods, operations, depth, op) ==
    IF ~op.ok THEN op
    ELSE OperationsLoop(a, ns, doc, Tail(methods),
                        DSet(operations, Head(methods),
                             DSet(op.val, "tags", <<ns.name>>)),
                        op.reg, depth)

OperationsLoop(a, ns, doc, methods, operations, reg, depth) ==
    IF methods = <<>> THEN SOk(reg, operations)
    ELSE IF doc[Head(methods)] = DocFalse
    THEN OperationsLoop(a, ns, doc, Tail(methods), operations, reg, depth)
    ELSE OperationStep(a, ns, doc, methods, operations, depth,
                       serialize_operation(a, doc, Head(methods), reg, depth))

\* 'return operations' (line 348), x being what extract_resource_doc
\* returned and ops what the loop over the methods returned
ResourceSerialized(x, ops) ==
    IF ~ops.ok THEN XErr(x.store, ops.reg, ops.err)
    ELSE [ok |-> TRUE, store |-> x.store, reg |-> ops.reg,
          val |-> Some(ops.val), doc |-> x.val]

\* Lines 340-347, x being what extract_resource_doc returned
ResourceOperations(a, ns, resource, depth, x) ==
    IF ~x.ok THEN x
    ELSE IF x.val = DocFalse
    THEN [ok |-> TRUE, store |-> x.store, reg |-> x.reg, val |-> None,
          doc |-> DocFalse]
    ELSE ResourceSerialized(x,
             OperationsLoop(a, ns, x.val, MethodsOf(resource), <<>>,
                            x.reg, depth))

\* serialize_resource(ns, resource, url): val is None (a hidden resource)
\* or Some(operations); doc is the doc the operations were built from.
serialize_resource(a, store, reg, ns, resource, url, depth) ==
    ResourceOperations(a, ns, resource, depth,
        extract_resource_doc(a, store, reg, resource, url, depth))

-----------------------------------------------------------------------------
(* Swagger.as_dict                                                         *)
(*                                                                         *)
(* A namespace is [name, description, path, resources]; resources maps, in *)
(* order, an endpoint to [resource |-> class name, urls |-> URL patterns]. *)

\* utils.not_none_sorted(data): the items whose value is not None, sorted
\* by key (the order of a sorted mapping is a function of its keys).
not_none_sorted(data) == not_none(data)

\* for ns in self.api.namespaces: for resource, urls, kwargs in
\* ns.resources.values(): for url in urls -- the triples, in order
UrlsOf(a, ns) ==
    Concat([i \in 1..Len(ns.resources) |->
               [j \in 1..Len(ns.resources[i][2].urls) |->
                   [ns |-> ns,
                    resource |-> a.classes[ns.resources[i][2].resource],
                    url |-> ns.resources[i][2].urls[j]]]])

Work(a) == Concat([i \in 1..Len(a.namespaces) |-> UrlsOf(a, a.namespaces[i])])

\* paths[extract_path(url)] = self.serialize_resource(ns, resource, url)
\* docs records, for each path, the doc its entry was built from and the
\* class it was built for.
RECURSIVE PathsLoop(_, _, _, _, _, _, _)
PathStep(a, work, paths, docs, depth, r) ==
    IF ~r.ok THEN r
    ELSE PathsLoop(a, Tail(work),
                   DSet(paths, extract_path(Head(work).url), r.val),
                   DSet(docs, extract_path(Head(work).url),
                        [doc |-> r.doc, resource |-> Head(work).resource.name,
                         url |-> Head(work).url]),
                   r.store, r.reg, depth)

PathsLoop(a, work, paths, docs, store, reg, depth) ==
    IF work = <<>>
    THEN [ok |-> TRUE, store |-> store, reg |-> reg, val |-> paths,
          docs |-> docs]
    ELSE PathStep(a, work, paths, docs, depth,
                  serialize_resource(a, store, reg, Head(work).ns,
                                     Head(work).resource, Head(work).url,
                                     depth))

\* infos of lines 196-213
Infos(a) ==
    LET i0 == [title |-> a.title, version |-> a.version]
        i1 == IF Truthy(a.description)
              THEN DSet(i0, "description", a.description[1]) ELSE i0
        i2 == IF Truthy(a.terms_url)
              THEN DSet(i1, "termsOfService", a.terms_url[1]) ELSE i1
        i3 == IF Truthy(a.contact)
                 /\ (Truthy(a.contact_email) \/ Truthy(a.contact_url))
              THEN DSet(i2, "contact", [name |-> a.contact,
                                        email |-> a.contact_email,
                                        url |-> a.contact_url])
              ELSE i2
    IN IF Truthy(a.license)
       THEN DSet(i3, "license",
                 IF Truthy(a.license_url)
                 THEN [name |-> a.license[1], url |-> a.license_url[1]]
                 ELSE [name |-> a.license[1]])
       ELSE i3

\* basepath of lines 193-195
BasePath(a) ==
    IF Len(a.base_path) > 1 /\ a.base_path[Len(a.base_path)] = "/"
    THEN Join(SubSeq(a.base_path, 1, Len(a.base_path) - 1))
    ELSE Join(a.base_path)

\* What as_dict leaves behind when it stops: the api (its tags and error
\* handlers), the __apidoc__ mappings and the model registry.
AOk(a, store, reg, doc, docs) ==
    [ok |-> TRUE, api |-> a, store |-> store, reg |-> reg, doc |-> doc,
     docs |-> docs]
AErr(a, store, reg, e) ==
    [ok |-> FALSE, api |-> a, store |-> store, reg |-> reg, err |-> e]

\* The dict of lines 225-238
Specs(a, tags, responses, paths, definitions) ==
    [swagger |-> Some("2.0"),
     basePath |-> Some(BasePath(a)),
     paths |-> Some(not_none_sorted(paths)),
     info |-> Some(Infos(a)),
     produces |-> Some(a.representations),
     consumes |-> Some(<<"application/json">>),
     securityDefinitions |->
         IF a.authorizations = None \/ DOMAIN a.authorizations[1] = {}
         THEN None ELSE a.authorizations,
     security |-> IF security_requirements(a.security) = Some(<<>>)
                  THEN None ELSE security_requirements(a.security),
     tags |-> Some(tags),
     definitions |-> IF DOMAIN definitions = {} THEN None
                     ELSE Some(definitions),
     responses |-> IF DOMAIN responses = {} THEN None ELSE Some(responses),
     host |-> get_host(a)]

\* Lines 225-239, paths being what the loop of lines 220-223 returned
AsDictPaths(a, tags, responses, paths) ==
    IF ~paths.ok THEN AErr(a, paths.store, paths.reg, paths.err)
    ELSE AOk(a, paths.store, paths.reg,
             not_none(Specs(a, tags, responses, paths.val,
                            serialize_definitions(a.models, paths.reg))),
             paths.docs)

\* Lines 220-223, errors being what register_errors returned and a the
\* api as register_errors left it
AsDictResources(a, store, depth, tags, errors) ==
    IF ~errors.ok THEN AErr(a, store, errors.reg, errors.err)
    ELSE AsDictPaths(a, tags, errors.val,
                     PathsLoop(a, Work(a), <<>>, <<>>, store, errors.reg, depth))

AsDictErrors(a, store, depth, tags, errors) ==
    AsDictResources([a EXCEPT !.error_handlers = errors.handlers],
                    store, depth, tags, errors)

\* Lines 215-218, tags being what extract_tags returned
AsDictTags(a, store, reg, depth, tags) ==
    IF ~tags.ok THEN AErr(a, store, reg, tags.err)
    ELSE AsDictErrors([a EXCEPT !.tags = TagsAfter(a, tags)], store, depth,
                      tags.val, register_errors(a, reg, depth))

\* as_dict(), reg being self._registered_models when it is called
as_dict(a, store, reg, depth) ==
    AsDictTags(a, store, reg, depth, extract_tags(a))

-----------------------------------------------------------------------------
(* Bounds *)

\* as_dict is called at most this many times in a run
MaxCalls == 2
\* what the interpreter's recursion limit leaves to register_model
RecursionLimit == 8
\* a URL pattern given to extract_path has at most this many parts
MaxParts == 3
\* an api declares at most this many tags
MaxTags == 2

-----------------------------------------------------------------------------
(* Namespace.add_resource and Namespace.route                              *)

\* Api.add_resource(resource, *urls, namespace=ns): the endpoint
EndpointOf(cls) == cls

Registered(a) ==
    UNION {{a.namespaces[n].resources[i][2].resource :
               i \in 1..Len(a.namespaces[n].resources)} :
           n \in 1..Len(a.namespaces)}

\* add_resource(resource, *urls): self.resources[endpoint] = (resource,
\* urls, kwargs)
add_resource(a, n, cls, urls) ==
    [a EXCEPT !.namespaces[n].resources =
        ODSet(@, EndpointOf(cls), [resource |-> cls, urls |-> urls])]

\* Api._handle_api_doc(cls, False): cls.__apidoc__ = False
HandleApiDoc(a, cls) == [a EXCEPT !.classes[cls].docid = Some(cls)]

UrlChoices(cls) ==
    IF cls = "A"
    THEN {<< <<"/", "a", "/", "<", "int", ":", "id", ">">> >>,
          << <<"/", "a", "/", "<", "int", ":", "id", ">">>,
             <<"/", "b", "/", "<", "name", ">">> >>}
    ELSE {<< <<"/", "c">> >>}

\* ns.add_resource(cls, *urls) on the default namespace, before the
\* documentation is served
AddResource ==
    /\ calls = 0
    /\ \E cls \in DOMAIN api.classes \ Registered(api) :
       \E urls \in UrlChoices(cls) :
          api' = add_resource(api, 1, cls, urls)
    /\ UNCHANGED <<apidocs, registered, arg, out, first, calls, declared>>

\* @ns.route(*urls) and @ns.route(*urls, doc=False) on the second
\* namespace: the URLs get the namespace's path in front
Route ==
    /\ calls = 0
    /\ Len(api.namespaces) > 1
    /\ \E cls \in DOMAIN api.classes \ Registered(api) :
       \E urls \in UrlChoices(cls) :
       \E hide \in BOOLEAN :
          LET full == [i \in 1..Len(urls) |-> api.namespaces[2].path \o urls[i]]
          IN /\ hide => cls = "B"
             /\ api' = add_resource(IF hide THEN HandleApiDoc(api, cls) ELSE api,
                                    2, cls, full)
             /\ apidocs' = IF hide THEN [apidocs EXCEPT ![cls] = DocFalse]
                           ELSE apidocs
             /\ declared' = IF hide THEN [declared EXCEPT ![cls] = DocFalse]
                            ELSE declared
    /\ UNCHANGED <<registered, arg, out, first, calls>>

\* What the caller of as_dict gets: the document, or the exception
Outcome(fresh, r) ==
    IF r.ok
    THEN [op |-> "as_dict", fresh |-> fresh, ok |-> TRUE,
          doc |-> r.doc, reg |-> r.reg, docs |-> r.docs]
    ELSE [op |-> "as_dict", fresh |-> fresh, ok |-> FALSE,
          err |-> r.err, reg |-> r.reg]

AsDictReturns(fresh, r) ==
    /\ api' = r.api
    /\ apidocs' = r.store
    /\ registered' = IF fresh THEN registered ELSE r.reg
    /\ out' = Outcome(fresh, r)
    /\ first' = IF calls = 0 THEN Outcome(fresh, r) ELSE first
    /\ calls' = calls + 1
    /\ UNCHANGED <<arg, declared>>

\* Swagger(api).as_dict() on a new Swagger instance (fresh), or
\* swagger.as_dict() on the instance that served the earlier calls
AsDictOn(fresh) ==
    /\ calls < MaxCalls
    /\ AsDictReturns(fresh, as_dict(api, apidocs,
                                    IF fresh THEN {} ELSE registered,
                                    RecursionLimit))

AsDictFresh == AsDictOn(TRUE)
AsDictAgain == AsDictOn(FALSE)

Next == AddResource \/ Route \/ AsDictFresh \/ AsDictAgain

-----------------------------------------------------------------------------
(* The applications the checks start from *)

NoOut == [op |-> "none"]

M1 == [parent |-> None, fields |-> << [k |-> "Raw"] >>]
M2 == [parent |-> Some("M1"), fields |-> << [k |-> "Raw"] >>]

NoImpl == [apidoc |-> None, docstring |-> None]

ClassB(docid) ==
    [name |-> "B", methods |-> Some(<<"GET">>), docid |-> docid,
     impl |-> [get |-> NoImpl]]

BaseApi ==
    [title |-> "API", version |-> "1.0",
     description |-> None, terms_url |-> None,
     contact |-> None, contact_email |-> None, contact_url |-> None,
     license |-> None, license_url |-> None,
     base_path |-> <<"/">>,
     representations |-> <<"application/json">>,
     authorizations |-> None,
     security |-> [k |-> "none"],
     tags |-> <<>>,
     namespaces |-> << [name |-> "default", description |-> Some("Default namespace"),
                        path |-> <<"/">>, resources |-> <<>>],
                       [name |-> "ns1", description |-> None,
                        path |-> <<"/", "ns1">>, resources |-> <<>>] >>,
     models |-> [n \in {"M1", "M2"} |-> IF n = "M1" THEN M1 ELSE M2],
     error_handlers |-> <<>>,
     classes |-> [c \in {"B"} |-> ClassB(None)],
     converters |-> {"default", "string", "any", "path", "int", "float", "uuid"},
     config |-> [SERVER_NAME |-> None, RESTPLUS_MASK_SWAGGER |-> TRUE,
                 RESTPLUS_MASK_HEADER |-> "X-Fields"],
     blueprint |-> None]

\* The state after the application in a with the class mappings in store
\* has been set up
InitWith(a, store) ==
    /\ api = a
    /\ apidocs = store
    /\ declared = store
    /\ registered = {}
    /\ arg = <<>>
    /\ out = NoOut
    /\ first = NoOut
    /\ calls = 0

-----------------------------------------------------------------------------
(* Specification Spec: resources with and without methods, hidden or not,  *)
(* under one or two URLs, with declared responses, models and ':raises'.   *)

NameRef(n) == [k |-> "name", n |-> n]
ModelRef(n) == [k |-> "model", n |-> n]
ListRef(m) == [k |-> "list", of |-> <<m>>]
Response(d, m) == [description |-> d, model |-> m]
\* a response given as its description, a plain string
Plain(d) == [description |-> Some(d), model |-> None, plain |-> TRUE]
\* a Model without fields that is not in api.models
EmptyModel(n) == [k |-> "model", n |-> n, empty |-> TRUE]
\* a value that is no model reference: 0, False, {} or an object
Other(truthy) == [k |-> "other", truthy |-> truthy]

ClassA(methods, docid, get) ==
    [name |-> "A", methods |-> methods, docid |-> docid,
     impl |-> [get |-> get, post |-> NoImpl]]

NotFoundHandler ==
    [docstring |-> Some("Not found"),
     apidoc |-> Some([responses |-> << <<"404", Response(Some("Missing"), None)>> >>,
                      params |-> << <<"X-Error", [in |-> "header",
                                                  type |-> "py:str"]>> >>])]

MainMethods == {None, Some(<<>>), Some(<<"GET">>), Some(<<"GET", "POST">>)}

MainClassDocs ==
    {<<>>,
     [responses |-> << <<"200", Response(None, Some(ModelRef("M1")))>> >>],
     [model |-> ListRef(NameRef("M2")), deprecated |-> TRUE]}

MainGets ==
    {NoImpl,
     [apidoc |-> Some([responses |->
                          << <<"404", Plain("Gone")>> >>]),
      docstring |-> Some("Get it. Really\n\n:raises NotFound: when missing")],
     [apidoc |-> None,
      docstring |-> Some("Get\n:raises NotFound: when missing\n:raises Other: never")],
     [apidoc |-> Some(DocFalse), docstring |-> None]}

MainApis ==
    {[BaseApi EXCEPT
         !.classes = [c \in {"A", "B"} |->
                         IF c = "A" THEN ClassA(m, d, g) ELSE ClassB(b)],
         !.error_handlers = h] :
       m \in MainMethods, d \in {None, Some("A")}, g \in MainGets,
       b \in {None},
       h \in {<<>>, << <<"NotFound", NotFoundHandler>> >>}}

Stores(docs) == {[c \in {"A", "B"} |-> IF c = "A" THEN d ELSE <<>>] : d \in docs}

Init ==
    \E a \in MainApis : \E store \in Stores(MainClassDocs) :
       /\ (a.classes["A"].docid = None => store["A"] = <<>>)
       /\ InitWith(a, store)

Spec == Init /\ [][Next]_vars

-----------------------------------------------------------------------------
(* Reading a returned document *)

Returned == out.op = "as_dict" /\ out.ok

\* The resources registered in the namespaces, as [resource, urls]
Registrations(a) ==
    UNION {{a.namespaces[n].resources[i][2] :
               i \in 1..Len(a.namespaces[n].resources)} :
           n \in 1..Len(a.namespaces)}

\* The operations of a document, as <<path, method>> pairs
Operations(doc) ==
    UNION {{<<p, m>> : m \in DOMAIN doc.paths[p]} : p \in DOMAIN doc.paths}

-----------------------------------------------------------------------------
(* C1 *)

\* C1: for every registered resource whose set of declared HTTP methods is
\* empty (resource.methods is None or empty), the document as_dict returns
\* has no entry in 'paths' for any of the resource's URLs.
C1_NoPathForResourceWithoutMethods ==
    Returned =>
        \A r \in Registrations(api) :
            MethodsOf(api.classes[r.resource]) = <<>> =>
                \A i \in 1..Len(r.urls) :
                    extract_path(r.urls[i]) \notin DOMAIN out.doc.paths

-----------------------------------------------------------------------------
(* C8 *)

\* The keys of the document whose value may not be empty
TopLevelKeys ==
    {"swagger", "basePath", "paths", "info", "produces", "consumes",
     "securityDefinitions", "security", "tags", "definitions", "responses",
     "host"}

\* Empty: '', an empty list or an empty mapping
IsEmpty(k, v) ==
    IF k \in {"swagger", "basePath", "host"} THEN v = ""
    ELSE IF k \in {"produces", "consumes", "security", "tags"} THEN v = <<>>
    ELSE DOMAIN v = {}

\* C8: the document as_dict returns holds no None and no empty top-level
\* value: each top-level key is absent or maps to a non-empty value, the
\* contact of 'info' has no None field, no tag has a None description, and
\* no operation has a None field.
C8_NoNoneNoEmptyValue ==
    Returned =>
        /\ \A k \in DOMAIN out.doc : k \in TopLevelKeys /\ ~IsEmpty(k, out.doc[k])
        /\ "contact" \in DOMAIN out.doc.info =>
              \A f \in DOMAIN out.doc.info.contact :
                  out.doc.info.contact[f] # None
        /\ \A i \in 1..Len(out.doc.tags) :
              "description" \in DOMAIN out.doc.tags[i] =>
                  out.doc.tags[i].description # None
        /\ \A o \in Operations(out.doc) :
              \A f \in {"summary", "description", "security"} :
                  f \in DOMAIN out.doc.paths[o[1]][o[2]] =>
                      out.doc.paths[o[1]][o[2]][f] # None

-----------------------------------------------------------------------------
(* C9 *)

\* C9: for an API that is not changed in between, every as_dict call
\* returns what the first call returned: the same paths (and the same
\* outcome), whatever the earlier calls left in the __apidoc__ mappings.
C9_RepeatedCallsReturnEqualPaths ==
    (out.op = "as_dict" /\ calls > 1) =>
        /\ out.ok = first.ok
        /\ out.ok => out.doc.paths = first.doc.paths

-----------------------------------------------------------------------------
(* C10 *)

\* The response codes a doc (of a resource or of a method) yields: the
\* codes of its 'responses', the code of its 'model', and the codes of the
\* error handlers its docstring's ':raises' names.
CodesOf(a, d) ==
    (IF "responses" \in DOMAIN d
     THEN {d.responses[i][1] : i \in 1..Len(d.responses)} ELSE {})
    \cup (IF "model" \in DOMAIN d THEN {DGet(d, "default_code", "200")} ELSE {})
    \cup (IF "docstring" \in DOMAIN d
          THEN {c \in {"200", "404", "500"} :
                  \E i \in 1..Len(a.error_handlers) :
                     /\ ODHas(d.docstring.raises, a.error_handlers[i][1])
                     /\ HandlerCode(a.error_handlers[i][2]) = Some(c)}
          ELSE {})

\* C10: every emitted operation has a non-empty 'responses'.  When neither
\* the doc of the resource nor the doc of the method yields a response (a
\* declared response, a model, a ':raises' of an exception whose handler
\* documents a code), 'responses' is exactly {'200': {'description':
\* 'Success'}}; otherwise its codes are the codes obtained from those
\* sources and no other: no default 200 is added.
C10_DefaultResponseOnlyWhenNoneDeclared ==
    Returned =>
        \A o \in Operations(out.doc) :
            LET op == out.doc.paths[o[1]][o[2]]
                d == out.docs[o[1]].doc
                codes == CodesOf(api, d) \cup CodesOf(api, d[o[2]])
            IN /\ "responses" \in DOMAIN op
               /\ DOMAIN op.responses # {}
               /\ codes = {} => op.responses = ("200" :> DEFAULT_RESPONSE)
               /\ codes # {} => DOMAIN op.responses = codes

\* A document with an operation that got the default response and an
\* operation that declares only a 404
C10_Witness ==
    /\ Returned
    /\ \E o \in Operations(out.doc) :
          /\ CodesOf(api, out.docs[o[1]].doc) = {}
          /\ CodesOf(api, out.docs[o[1]].doc[o[2]]) = {}
          /\ out.doc.paths[o[1]][o[2]].responses = ("200" :> DEFAULT_RESPONSE)
    /\ \E o \in Operations(out.doc) :
          DOMAIN out.doc.paths[o[1]][o[2]].responses = {"404"}

-----------------------------------------------------------------------------
(* Specification SpecPath: extract_path and extract_path_params on URL     *)
(* patterns.  A pattern is given as its parts: a literal, a placeholder    *)
(* '<name>' or '<converter:name>', or a stray '<', ':' that makes the      *)
(* pattern one Werkzeug would not accept.                                  *)

Literal(t) == [k |-> "lit", toks |-> <<t>>]
Placeholder(conv, name) ==
    [k |-> "ph", conv |-> conv, name |-> name,
     toks |-> IF conv = None THEN <<"<", name, ">">>
              ELSE <<"<", conv[1], ":", name, ">">>]
Stray(t) == [k |-> "stray", toks |-> <<t>>]

PathConverters == {None, Some("int"), Some("float"), Some("string"),
                   Some("path"), Some("slug")}

PathParts ==
    {Literal("/a/")}
    \cup {Placeholder(c, n) : c \in PathConverters, n \in {"id", "n"}}
    \cup {Stray("<"), Stray(":")}

\* The patterns of at most MaxParts parts
Patterns == UNION {[1..n -> PathParts] : n \in 0..MaxParts}

\* The URL pattern the parts spell
UrlOf(parts) == Concat([i \in 1..Len(parts) |-> parts[i].toks])

InitPath ==
    /\ api = BaseApi
    /\ apidocs = [c \in {"B"} |-> <<>>]
    /\ declared = [c \in {"B"} |-> <<>>]
    /\ registered = {}
    /\ arg \in Patterns
    /\ out = NoOut
    /\ first = NoOut
    /\ calls = 0

\* extract_path(url)
ExtractPath ==
    /\ out' = [op |-> "extract_path", path |-> extract_path(UrlOf(arg))]
    /\ UNCHANGED <<api, apidocs, registered, arg, first, calls, declared>>

\* extract_path_params(url) in the application's context
ExtractPathParams ==
    /\ out' = [op |-> "extract_path_params",
               res |-> extract_path_params(UrlOf(arg), api.converters)]
    /\ UNCHANGED <<api, apidocs, registered, arg, first, calls, declared>>

NextPath == ExtractPath \/ ExtractPathParams

SpecPath == InitPath /\ [][NextPath]_vars

-----------------------------------------------------------------------------
(* C4 *)

\* A pattern whose every '<' opens a placeholder '<name>' or
\* '<converter:name>' and whose placeholders have distinct names
WellFormed(parts) ==
    /\ \A i \in 1..Len(parts) : parts[i].k # "stray"
    /\ \A i, j \in 1..Len(parts) :
          (parts[i].k = "ph" /\ parts[j].k = "ph" /\ parts[i].name = parts[j].name)
             => i = j

\* The parts of a pattern that are placeholders, in order
RECURSIVE PlaceholdersOf(_)
PlaceholdersOf(parts) ==
    IF parts = <<>> THEN <<>>
    ELSE (IF Head(parts).k = "ph" THEN <<Head(parts)>> ELSE <<>>)
         \o PlaceholdersOf(Tail(parts))

\* The Swagger type the claim gives a converter: <<type>>, or None for a
\* converter that is in none of the sets
TypeOfConverter(conv, converters) ==
    CASE conv = Some("int") -> Some("integer")
      [] conv = Some("float") -> Some("number")
      [] conv \in {Some("string"), None} -> Some("string")
      [] OTHER -> IF conv[1] \in converters THEN Some("string") ELSE None

\* C4: for a well-formed URL pattern, extract_path replaces every
\* placeholder '<converter:name>' or '<name>' by '{name}' and leaves the
\* rest; extract_path_params returns, in order, exactly one parameter
\* {name, in: 'path', required: true, type} per placeholder, the type being
\* integer for int, number for float, string for string, for no converter
\* and for any other converter of the url_map; it raises when a placeholder
\* has a converter that is in none of these sets.
C4_PlaceholdersBecomePathParams ==
    WellFormed(arg) =>
        LET phs == PlaceholdersOf(arg)
            types == [i \in 1..Len(phs) |->
                         TypeOfConverter(phs[i].conv, api.converters)]
        IN /\ out.op = "extract_path" =>
                out.path = Join(Concat([i \in 1..Len(arg) |->
                              IF arg[i].k = "ph" THEN <<"{", arg[i].name, "}">>
                              ELSE arg[i].toks]))
           /\ out.op = "extract_path_params" =>
                IF \E i \in 1..Len(phs) : types[i] = None
                THEN ~out.res.ok
                ELSE /\ out.res.ok
                     /\ out.res.val =
                          [i \in 1..Len(phs) |->
                              <<phs[i].name,
                                [name |-> phs[i].name, in |-> "path",
                                 required |-> TRUE, type |-> types[i][1]]>>]

\* Two placeholders, an int one and one of a converter only the url_map
\* knows, became an integer and a string parameter
C4_Witness ==
    /\ WellFormed(arg)
    /\ out.op = "extract_path_params"
    /\ out.res.ok
    /\ Len(out.res.val) = 2
    /\ \E i, j \in 1..Len(arg) :
          /\ arg[i].k = "ph" /\ arg[i].conv = Some("int")
          /\ arg[j].k = "ph" /\ arg[j].conv = Some("path")
          /\ ODGet(out.res.val, arg[i].name).type = "integer"
          /\ ODGet(out.res.val, arg[j].name).type = "string"

-----------------------------------------------------------------------------
(* Specification SpecTags: applications that declare tags of every shape   *)

StrTag(n) == [k |-> "str", name |-> n]
SeqTag(items) == [k |-> "seq", items |-> items]
DictTag(d) == [k |-> "dict", d |-> d]

TagChoices ==
    {StrTag("t1"), StrTag("ns1"),
     SeqTag(<<"t2", "second">>), SeqTag(<<"ns1", "first namespace">>),
     SeqTag(<<"t3">>), SeqTag(<<"t3", "third", "extra">>),
     DictTag([name |-> "t4"]),
     DictTag([name |-> "default", description |-> Some("the default")]),
     DictTag([description |-> Some("nameless")]),
     [k |-> "other"]}

\* Api(security=...): nothing, a name, '', a dict of scopes, a list, 0
\* and an object
SecurityChoices ==
    {[k |-> "none"], [k |-> "str", v |-> "apikey"], [k |-> "str", v |-> ""],
     [k |-> "dict", scopes |-> [oauth |-> [list |-> FALSE, v |-> "read"]]],
     [k |-> "list", items |-> <<[k |-> "str", v |-> "apikey"]>>],
     [k |-> "other", truthy |-> FALSE], [k |-> "other", truthy |-> TRUE]}

TagsApis ==
    {[BaseApi EXCEPT !.tags = t, !.security = sec] :
        t \in UNION {[1..n -> TagChoices] : n \in 0..MaxTags},
        sec \in SecurityChoices}

InitTags == \E a \in TagsApis : InitWith(a, [c \in {"B"} |-> <<>>])

SpecTags == InitTags /\ [][Next]_vars

-----------------------------------------------------------------------------
(* C5 *)

\* The three shapes of a declared tag
SupportedTag(tag) ==
    \/ tag.k = "str"
    \/ tag.k = "seq" /\ Len(tag.items) = 2
    \/ tag.k = "dict" /\ "name" \in DOMAIN tag.d

\* C5: as_dict succeeds exactly when every declared tag is a string, a
\* (name, description) pair or a mapping with 'name'; it raises for any
\* other shape.  On success every tag object has a 'name' and every
\* namespace name is the name of a tag of the document.
C5_OnlyThreeTagShapes ==
    (out.op = "as_dict") =>
        /\ out.ok <=> \A i \in 1..Len(api.tags) : SupportedTag(api.tags[i])
        /\ out.ok =>
             /\ \A i \in 1..Len(out.doc.tags) : "name" \in DOMAIN out.doc.tags[i]
             /\ \A n \in 1..Len(api.namespaces) :
                   \E i \in 1..Len(out.doc.tags) :
                      out.doc.tags[i].name = api.namespaces[n].name

-----------------------------------------------------------------------------
(* Specification SpecModels: applications whose resource, method and error *)
(* handler reference models, some of them not in api.models, over model    *)
(* graphs with parents, Nested, List and Polymorph fields and cycles.      *)

ModelNames == {"M1", "M2", "M3", "M4"}

Raw == [k |-> "Raw"]
Nested(n) == [k |-> "Nested", nested |-> n]
List(f) == [k |-> "List", container |-> f]
Polymorph(ns) == [k |-> "Polymorph", mapping |-> ns]
Model(parent, fields) == [parent |-> parent, fields |-> fields]
\* a model whose parent has no field and is not in api.models
OrphanModel(parent, fields) ==
    [parent |-> Some(parent), fields |-> fields, parent_empty |-> TRUE]

GraphsM1 == {Model(None, <<Raw>>), Model(None, <<Raw, Nested("M2")>>),
             Model(None, <<Polymorph(<<"M2", "M3">>)>>)}
GraphsM2 == {Model(None, <<Raw>>), Model(Some("M3"), <<Raw>>),
             Model(None, <<List(Nested("M3"))>>)}

\* api.models: M1 and M2 over every pair of specs, M3 registered or not,
\* M2 registered or not; then two cyclic graphs, a graph with a Nested
\* model that is not registered, one whose M3 has no field, one where
\* that M3 is the parent of M2 and one where the parent of M2 is a Model
\* without fields that is not registered.
ModelGraphs ==
    {[n \in dom |-> IF n = "M1" THEN m1 ELSE IF n = "M2" THEN m2
                    ELSE Model(None, <<Raw>>)] :
        m1 \in GraphsM1, m2 \in GraphsM2,
        dom \in {{"M1", "M2", "M3"}, {"M1", "M2"}, {"M1", "M3"}}}
    \cup {[n \in {"M1"} |-> Model(None, <<Nested("M1")>>)],
          [n \in {"M1", "M2"} |->
              IF n = "M1" THEN Model(None, <<Nested("M2")>>)
              ELSE Model(Some("M1"), <<Raw>>)],
          [n \in {"M1", "M2"} |->
              IF n = "M1" THEN Model(None, <<List(Nested("M4"))>>)
              ELSE Model(None, <<Raw>>)],
          [n \in {"M1", "M2", "M3"} |->
              IF n = "M3" THEN Model(None, <<>>) ELSE Model(None, <<Raw>>)],
          [n \in {"M1", "M2", "M3"} |->
              IF n = "M3" THEN Model(None, <<>>)
              ELSE IF n = "M2" THEN Model(Some("M3"), <<Raw>>)
              ELSE Model(None, <<Raw>>)],
          [n \in {"M1", "M2"} |->
              IF n = "M2" THEN OrphanModel("M4", <<Raw>>)
              ELSE Model(None, <<Raw>>)]}

ModelsClassDocs == {<<>>, [body |-> ListRef(NameRef("M1"))]}

ModelsGets ==
    {NoImpl,
     [apidoc |-> Some([responses |->
                  << <<"200", Response(None, Some(ModelRef("M3")))>> >>]),
      docstring |-> None],
     [apidoc |-> Some([model |-> NameRef("M2")]), docstring |-> None],
     [apidoc |-> Some([responses |->
                  << <<"200", Response(None, Some(EmptyModel("M4")))>> >>]),
      docstring |-> None],
     [apidoc |-> Some([responses |->
                  << <<"200", Response(Some("ok"), Some(Other(FALSE)))>> >>]),
      docstring |-> None],
     [apidoc |-> Some([responses |->
                  << <<"200", Response(Some("ok"), Some(Other(TRUE)))>> >>]),
      docstring |-> None]}

\* A handler documented with @api.response(400, 'Bad request'): the
\* response is the description alone
BadRequestHandler ==
    [docstring |-> Some("Bad request"),
     apidoc |-> Some([responses |-> << <<"400", Plain("Bad request")>> >>])]

FailureHandler ==
    [docstring |-> Some("Failure"),
     apidoc |-> Some([responses |->
                  << <<"500", Response(Some("Failed"), Some(NameRef("M2")))>> >>])]

ModelsApis ==
    {[BaseApi EXCEPT
         !.models = g,
         !.classes = [c \in {"B"} |->
                         [name |-> "B", methods |-> m, docid |-> Some("B"),
                          impl |-> [get |-> i]]],
         !.error_handlers = h] :
       g \in ModelGraphs, m \in {Some(<<"GET">>), Some(<<>>)},
       i \in ModelsGets,
       h \in {<<>>, << <<"Failure", FailureHandler>> >>,
              << <<"BadRequest", BadRequestHandler>> >>}}

InitModels ==
    \E a \in ModelsApis : \E d \in ModelsClassDocs :
        InitWith(a, [c \in {"B"} |-> d])

SpecModels == InitModels /\ [][Next]_vars

-----------------------------------------------------------------------------
(* C2 and C6: the models a document refers to *)

\* The model a reference names: the first item of a list or tuple, the
\* name of a Model or the string itself
RECURSIVE RefNames(_)
RefNames(m) ==
    IF m.k \in {"name", "model"} THEN {m.n}
    ELSE IF m.k = "list" /\ m.of # <<>> THEN RefNames(m.of[1])
    ELSE {}

\* The smallest set of names that contains names and, with a model of
\* api.models, its parent and the targets of its fields
RECURSIVE Closure(_, _)
Closure(models, names) ==
    LET more == names \cup UNION {ModelRefs(models[n]) :
                                     n \in names \cap DOMAIN models}
    IN IF more = names THEN names ELSE Closure(models, more)

\* The methods a doc has an entry for
DocMethods(d) == {"get", "post"} \cap DOMAIN d

\* The models the body declarations name that end in a 'payload' body
\* parameter: those of every documented resource and of its documented
\* methods (docs: the doc each path was built from)
BodyRoots(docs) ==
    UNION {IF docs[p].doc = DocFalse THEN {}
           ELSE (IF "body" \in DOMAIN docs[p].doc
                 THEN RefNames(docs[p].doc.body) ELSE {})
                \cup UNION {IF docs[p].doc[m] # DocFalse
                               /\ "body" \in DOMAIN docs[p].doc[m]
                            THEN RefNames(docs[p].doc[m].body) ELSE {} :
                            m \in DocMethods(docs[p].doc)} :
           p \in DOMAIN docs}

\* The models the responses a doc declares refer to
DeclaredResponseRefs(d) ==
    (IF "responses" \in DOMAIN d
     THEN UNION {IF d.responses[i][2].model # None
                 THEN RefNames(d.responses[i][2].model[1]) ELSE {} :
                 i \in 1..Len(d.responses)}
     ELSE {})
    \cup (IF "model" \in DOMAIN d THEN RefNames(d.model) ELSE {})

\* The models the declared responses of the emitted operations refer to
ResponseRoots(doc, docs) ==
    UNION {DeclaredResponseRefs(docs[o[1]].doc)
           \cup DeclaredResponseRefs(docs[o[1]].doc[o[2]]) :
           o \in Operations(doc)}

\* The models the error handlers' responses refer to
HandlerRoots(handlers) ==
    UNION {IF "responses" \in DOMAIN HandlerDoc(handlers[i][2])
              /\ HandlerDoc(handlers[i][2]).responses[1][2].model # None
           THEN RefNames(HandlerDoc(handlers[i][2]).responses[1][2].model[1])
           ELSE {} :
           i \in 1..Len(handlers)}

\* The names X of the '$ref': '#/definitions/X' of a schema
RECURSIVE SchemaRefs(_)
SchemaRefs(schema) ==
    {n \in ModelNames : "$ref" \in DOMAIN schema /\ schema["$ref"] = ref(n)["$ref"]}
    \cup (IF "items" \in DOMAIN schema THEN SchemaRefs(schema.items) ELSE {})

\* The names the schemas of the responses of a document refer to
EmittedResponseRefs(doc) ==
    UNION {UNION {IF "schema" \in DOMAIN doc.paths[o[1]][o[2]].responses[c]
                  THEN SchemaRefs(doc.paths[o[1]][o[2]].responses[c].schema)
                  ELSE {} :
                  c \in DOMAIN doc.paths[o[1]][o[2]].responses} :
           o \in Operations(doc)}
    \cup (IF "responses" \in DOMAIN doc
          THEN UNION {IF "schema" \in DOMAIN doc.responses[n]
                      THEN SchemaRefs(doc.responses[n].schema) ELSE {} :
                      n \in DOMAIN doc.responses}
          ELSE {})

\* The names the schemas of the parameters of a document refer to
EmittedParamRefs(doc) ==
    UNION {IF "parameters" \in DOMAIN doc.paths[o[1]][o[2]]
           THEN UNION {IF "schema" \in DOMAIN doc.paths[o[1]][o[2]].parameters[i]
                       THEN SchemaRefs(doc.paths[o[1]][o[2]].parameters[i].schema)
                       ELSE {} :
                       i \in 1..Len(doc.paths[o[1]][o[2]].parameters)}
           ELSE {} :
           o \in Operations(doc)}

\* The names of 'definitions' and the names its schemas refer to
Definitions(doc) ==
    IF "definitions" \in DOMAIN doc THEN DOMAIN doc.definitions ELSE {}

DefinitionRefs(doc) ==
    {n \in ModelNames :
        \E d \in Definitions(doc) : ref(n)["$ref"] \in doc.definitions[d].refs}

\* C2: when as_dict returns a document, every model a body, a declared
\* response of an emitted operation or an error handler refers to, and
\* every model reached from one of them through a parent, a Nested, a List
\* or a Polymorph field, is in api.models, and so is every model a $ref of
\* the document names: with a referenced name missing from api.models
\* as_dict raises.
C2_UnregisteredModelRaises ==
    Returned =>
        /\ Closure(api.models,
                   BodyRoots(out.docs)
                   \cup ResponseRoots(out.doc, out.docs)
                   \cup HandlerRoots(api.error_handlers))
              \subseteq DOMAIN api.models
        /\ (EmittedResponseRefs(out.doc) \cup EmittedParamRefs(out.doc)
            \cup DefinitionRefs(out.doc)) \subseteq DOMAIN api.models

\* C6: after a successful as_dict on a fresh Swagger instance, the keys of
\* 'definitions' are exactly the smallest set that contains the models of
\* the body parameters (of each documented resource and documented method),
\* of the emitted responses and of the error handlers and is closed under
\* parent, Nested target, List container target and Polymorph targets.  So
\* the parent of a model of definitions is in definitions, every $ref
\* '#/definitions/X' of the document has X in definitions, and a model
\* nothing refers to is not in definitions.
C6_DefinitionsAreTheClosure ==
    (Returned /\ out.fresh) =>
        /\ Definitions(out.doc) =
              Closure(api.models,
                      BodyRoots(out.docs) \cup EmittedResponseRefs(out.doc))
        /\ \A n \in Definitions(out.doc) :
              api.models[n].parent # None =>
                  api.models[n].parent[1] \in Definitions(out.doc)
        /\ (EmittedResponseRefs(out.doc) \cup EmittedParamRefs(out.doc)
            \cup DefinitionRefs(out.doc)) \subseteq Definitions(out.doc)

-----------------------------------------------------------------------------
(* Specification SpecParams: a resource whose class and whose GET handler  *)
(* declare parsers, explicit params and bodies, under one or two URLs.     *)

Argument(name, location, type) ==
    [name |-> name, location |-> location, type |-> [k |-> "py", t |-> type],
     required |-> FALSE, help |-> None, default |-> None,
     action |-> "store", choices |-> <<>>]

ClassParsers ==
    {<< [Argument("q", "args", "py:int") EXCEPT !.required = TRUE] >>,
     << [Argument("f", "files", "py:str") EXCEPT !.type = [k |-> "other"]] >>,
     << [Argument("id", "args", "py:str") EXCEPT !.help = Some("from the parser")] >>}

MethodParsers ==
    {<< Argument("f", "form", "py:str") >>,
     << Argument("f", "form", "py:str"), Argument("j", "json", "py:str") >>}

ClassParams ==
    {<< <<"id", [description |-> "The id"]>> >>,
     << <<"b", [in |-> "body"]>> >>}

MethodParams == {<< <<"q", [in |-> "formData", type |-> "py:int"]>> >>}

ClassBodies == {ListRef(NameRef("M1"))}

MethodBodies ==
    {NameRef("M2"), [k |-> "list", of |-> <<NameRef("M2"), Some("The body")>>]}

\* The docs that declare at most one parser, one params and one body
DocsOf(parsers, params, bodies) ==
    {DSetIf(DSetIf(DSetIf(<<>>, p # None, "parser", p[1]),
                   e # None, "params", e[1]),
            b # None, "body", b[1]) :
        p \in {None} \cup {Some(x) : x \in parsers},
        e \in {None} \cup {Some(x) : x \in params},
        b \in {None} \cup {Some(x) : x \in bodies}}

ParamsApis ==
    {[BaseApi EXCEPT
         !.classes = [c \in {"A"} |->
                         ClassA(Some(<<"GET">>), Some("A"),
                                [apidoc |-> IF d = <<>> THEN None ELSE Some(d),
                                 docstring |-> None])]] :
       d \in DocsOf(MethodParsers, MethodParams, MethodBodies)}

InitParams ==
    \E a \in ParamsApis :
    \E d \in DocsOf(ClassParsers, ClassParams, ClassBodies) :
        InitWith(a, [c \in {"A"} |-> d])

SpecParams == InitParams /\ [][Next]_vars

-----------------------------------------------------------------------------
(* C3 *)

\* The locations of the parameters of an operation
LocationsOf(operation) ==
    IF "parameters" \notin DOMAIN operation THEN {}
    ELSE {operation.parameters[i].in : i \in 1..Len(operation.parameters)}

\* C3: as_dict never returns an operation whose parameters have both a
\* parameter in 'body' and a parameter in 'formData': when the parsers,
\* explicit params and bodies of the resource and of the method together
\* give both locations, as_dict raises.
C3_NoBodyWithFormData ==
    Returned =>
        \A o \in Operations(out.doc) :
            ~({"body", "formData"} \subseteq LocationsOf(out.doc.paths[o[1]][o[2]]))

-----------------------------------------------------------------------------
(* C7 *)

\* The parameters one doc declares, source by source in the order parser,
\* explicit params, body ('payload'); each source maps names to dicts
SourcesOf(models, d) ==
    (IF "parser" \in DOMAIN d THEN <<parser_to_params(d.parser).val>> ELSE <<>>)
    \o (IF "params" \in DOMAIN d THEN <<d.params>> ELSE <<>>)
    \o (IF "body" \in DOMAIN d
        THEN << MergePayload(<<>>,
                    IF BodyIsPair(d) THEN d.body.of[2] ELSE None,
                    serialize_schema(models,
                        IF BodyIsPair(d) THEN d.body.of[1] ELSE d.body,
                        {}, RecursionLimit)).val >>
        ELSE <<>>)

\* The value the last source that defines key k of parameter n gives it
RECURSIVE LastValue(_, _, _)
LastValue(sources, n, k) ==
    LET last == sources[Len(sources)]
    IN IF ODHas(last, n) /\ k \in DOMAIN ODGet(last, n) THEN ODGet(last, n)[k]
       ELSE LastValue(SubSeq(sources, 1, Len(sources) - 1), n, k)

\* The merge by name of the sources in which, key by key, the later
\* source wins and the keys of one source only are kept
LaterWins(sources) ==
    LET names == UNION {{sources[i][j][1] : j \in 1..Len(sources[i])} :
                        i \in 1..Len(sources)}
        keys(n) == UNION {IF ODHas(sources[i], n)
                          THEN DOMAIN ODGet(sources[i], n) ELSE {} :
                          i \in 1..Len(sources)}
    IN [n \in names |-> [k \in keys(n) |-> LastValue(sources, n, k)]]

\* The parameters of an operation, by name
ByName(operation) ==
    IF "parameters" \notin DOMAIN operation THEN <<>>
    ELSE [n \in {operation.parameters[i].name :
                    i \in 1..Len(operation.parameters)} |->
             operation.parameters[
                 CHOOSE i \in 1..Len(operation.parameters) :
                     operation.parameters[i].name = n]]

\* C7: the parameters of an emitted operation are the merge by name of the
\* parameters of its URL, of the parser, the explicit params and the body
\* the resource declares, then of the parser, the explicit params and the
\* body the method declares: key by key the value of the later source is
\* emitted, and the keys only one source defines are kept (the name, the
\* default type and location and the Swagger type are then filled in as
\* parameters_for fills them in).
C7_LaterSourceWins ==
    Returned =>
        \A o \in Operations(out.doc) :
            LET cls == out.docs[o[1]].resource
                expected ==
                    LaterWins(<<extract_path_params(out.docs[o[1]].url,
                                                    api.converters).val>>
                              \o SourcesOf(api.models, declared[cls])
                              \o SourcesOf(api.models,
                                     ImplDoc(api.classes[cls].impl[o[2]])))
            IN ByName(out.doc.paths[o[1]][o[2]]) =
                  [n \in DOMAIN expected |-> OperationParam(n, expected[n])]


-----------------------------------------------------------------------------
(* C11 *)

\* The names of the placeholders of a URL pattern: what stands right
\* before each '>'
PlaceholderNames(url) == {url[i - 1] : i \in {j \in 2..Len(url) : url[j] = ">"}}

\* The names of the parameters of an operation that are located in 'path'
PathParamNames(operation) ==
    IF "parameters" \notin DOMAIN operation THEN {}
    ELSE {operation.parameters[i].name :
             i \in {j \in 1..Len(operation.parameters) :
                       operation.parameters[j].in = "path"}}

\* C11: in a returned document, every operation under a path has an
\* 'in: path' parameter for exactly the placeholders of the URL pattern of
\* that path: no path parameter of another URL of the resource shows up,
\* on the first as_dict call or on a later one.
C11_PathParamsOfOwnUrlOnly ==
    Returned =>
        \A o \in Operations(out.doc) :
            PathParamNames(out.doc.paths[o[1]][o[2]]) =
                PlaceholderNames(out.docs[o[1]].url)


-----------------------------------------------------------------------------
(* C12 *)

\* The models of api.models that refer back to themselves, directly or
\* through other models: by a parent, a Nested, a List or a Polymorph field
OnCycle(models) ==
    {n \in DOMAIN models : n \in Closure(models, ModelRefs(models[n]))}

\* C12: registering the models terminates for every finite api.models,
\* also when models refer back to themselves or form a cycle through
\* fields or parents: register_model visits a model a bounded number of
\* times, so as_dict returns or raises an error of its own and never uses
\* up the recursion the interpreter allows (RuntimeError, 'maximum
\* recursion depth exceeded').
C12_RegistrationTerminates ==
    (out.op = "as_dict" /\ ~out.ok) => out.err # "RuntimeError"

=============================================================================
